---- MODULE Spec2Model ----
(***************************************************************************)
(* Model of the universal USB device monitoring service (src/usb_api.py):  *)
(* the format detector, the format parsers, the sensor normaliser and the  *)
(* USBMonitor connection state machine with its HTTP handlers.             *)
(*                                                                         *)
(* Text is a sequence of characters; a character is a one-character        *)
(* string, or a short name for a character that has no printable form.     *)
(* Python values are tagged records (PyNone, PyInt, PyFloat, PyStr, ...).  *)
(***************************************************************************)
EXTENDS Integers, Sequences, FiniteSets, TLC

VARIABLES
    raw_data,       \* the line handed to parse_universal_data
    data_format,    \* the format hint handed to parse_universal_data
    detected,       \* result of _detect_data_format on the cleaned line
    response,       \* result of parse_universal_data
    parsed_data,    \* a parser's result, the input of _extract_sensor_data
    sensor_data,    \* result of _extract_sensor_data
    usb_monitor,    \* the global USBMonitor instance
    transport,      \* the serial transports open at the operating system
    env,            \* the process environment: simulated-device mode, platform
    ports,          \* what serial.tools.list_ports.comports() returns
    now,            \* the clock read by datetime.now()
    last,           \* the last operation on the monitor and what it returned
    pending,        \* the requests that arrived and whose handler has not begun
    active,         \* the requests whose handler has begun and not returned
    worker_monitor  \* the usb_monitor and the transports of each worker process

pureVars == <<raw_data, data_format, detected, response, parsed_data, sensor_data>>

monVars == <<usb_monitor, transport, env, ports, now, last>>

loopVars == <<pending, active>>

deployVars == <<worker_monitor>>

vars == <<pureVars, monVars, loopVars, deployVars>>

(***************************************************************************)
(* Characters                                                              *)
(***************************************************************************)
NUL == "NUL"    \* '\x00'
SOH == "SOH"    \* '\x01'
DEL == "DEL"    \* '\x7f'
TAB == "\t"
LF  == "\n"
CR  == "\r"
QUOTE == "\""

Lower == << "a", "b", "c", "d", "e", "f", "g", "h", "i", "j", "k", "l", "m",
            "n", "o", "p", "q", "r", "s", "t", "u", "v", "w", "x", "y", "z" >>

Digits == << "0", "1", "2", "3", "4", "5", "6", "7", "8", "9" >>

IndexOf(seq, c) == CHOOSE i \in 1..Len(seq) : seq[i] = c

Range(seq) == { seq[i] : i \in 1..Len(seq) }

\* ord(c) of the characters the model's alphabets carry
Ord(c) ==
    CASE c = NUL -> 0
      [] c = SOH -> 1
      [] c = TAB -> 9
      [] c = LF -> 10
      [] c = CR -> 13
      [] c = " " -> 32
      [] c = QUOTE -> 34
      [] c = "," -> 44
      [] c = "-" -> 45
      [] c = "." -> 46
      [] c = ":" -> 58
      [] c = ";" -> 59
      [] c = "=" -> 61
      [] c = "V" -> 86
      [] c = "[" -> 91
      [] c = "]" -> 93
      [] c = "_" -> 95
      [] c = "{" -> 123
      [] c = "}" -> 125
      [] c = DEL -> 127
      [] c \in Range(Digits) -> 47 + IndexOf(Digits, c)
      [] c \in Range(Lower) -> 96 + IndexOf(Lower, c)

\* the characters str.strip() removes from both ends
Whitespace == { " ", TAB, LF, CR }

IsDigit(c) == c \in Range(Digits)

DigitVal(c) == IndexOf(Digits, c) - 1

(***************************************************************************)
(* Text helpers (str methods used by the source)                           *)
(***************************************************************************)
RECURSIVE LStrip(_)
LStrip(s) == IF s # <<>> /\ Head(s) \in Whitespace THEN LStrip(Tail(s)) ELSE s

RECURSIVE RStrip(_)
RStrip(s) ==
    IF s # <<>> /\ s[Len(s)] \in Whitespace
    THEN RStrip(SubSeq(s, 1, Len(s) - 1))
    ELSE s

\* str.strip()
Strip(s) == RStrip(LStrip(s))

\* str.replace(c, '')
RemoveChar(s, c) == SelectSeq(s, LAMBDA x : x # c)

StartsWith(s, c) == Len(s) >= 1 /\ s[1] = c

EndsWith(s, c) == Len(s) >= 1 /\ s[Len(s)] = c

\* position of the first c in s at or after i, or 0
RECURSIVE Find(_, _, _)
Find(s, c, i) ==
    IF i > Len(s) THEN 0
    ELSE IF s[i] = c THEN i
    ELSE Find(s, c, i + 1)

\* number of occurrences of c in s
CountChar(s, c) == Cardinality({ i \in 1..Len(s) : s[i] = c })

(***************************************************************************)
(* Python values                                                           *)
(***************************************************************************)
PyNone == [t |-> "none"]
PyBool(b) == [t |-> "bool", b |-> b]
PyInt(n) == [t |-> "int", i |-> n]
\* the float num / 10^exp, with num not divisible by 10 unless exp = 0
PyFloat(num, exp) == [t |-> "float", num |-> num, exp |-> exp]
PyStr(s) == [t |-> "str", s |-> s]
PyList(l) == [t |-> "list", l |-> l]
PyDict(d) == [t |-> "dict", d |-> d]

EmptyMap == [k \in {} |-> PyNone]

\* d[k] = v on a dict
Put(d, k, v) == [x \in (DOMAIN d) \cup {k} |-> IF x = k THEN v ELSE d[x]]

\* bool(v)
Truthy(v) ==
    CASE v.t = "none" -> FALSE
      [] v.t = "bool" -> v.b
      [] v.t = "int" -> v.i # 0
      [] v.t = "float" -> v.num # 0
      [] v.t = "str" -> v.s # <<>>
      [] v.t = "list" -> v.l # <<>>
      [] v.t = "dict" -> DOMAIN v.d # {}

RECURSIVE NormFloat(_, _)
NormFloat(num, exp) ==
    IF exp > 0 /\ num % 10 = 0 THEN NormFloat(num \div 10, exp - 1)
    ELSE PyFloat(num, exp)

(***************************************************************************)
(* json.loads, restricted to the characters of the model's alphabets: no   *)
(* backslash escapes and no exponents, which no input line carries.        *)
(***************************************************************************)
JsonWs == { " ", TAB, LF, CR }

JsonFail == [ok |-> FALSE]

JsonOk(v, end) == [ok |-> TRUE, v |-> v, end |-> end]

\* WHITESPACE.match(s, i).end()
RECURSIVE SkipWs(_, _)
SkipWs(s, i) == IF i <= Len(s) /\ s[i] \in JsonWs THEN SkipWs(s, i + 1) ELSE i

\* scanstring: i is the position after the opening quote; strict mode
\* rejects control characters inside a string
RECURSIVE ScanString(_, _, _)
ScanString(s, i, acc) ==
    IF i > Len(s) THEN JsonFail
    ELSE IF s[i] = QUOTE THEN JsonOk(acc, i + 1)
    ELSE IF Ord(s[i]) < 32 THEN JsonFail
    ELSE ScanString(s, i + 1, Append(acc, s[i]))

\* end of the run of digits that starts at i
RECURSIVE DigitsEnd(_, _)
DigitsEnd(s, i) == IF i <= Len(s) /\ IsDigit(s[i]) THEN DigitsEnd(s, i + 1) ELSE i

\* the natural number written by the digits s[i..j-1]
RECURSIVE DigitsValue(_, _, _, _)
DigitsValue(s, i, j, acc) ==
    IF i >= j THEN acc ELSE DigitsValue(s, i + 1, j, 10 * acc + DigitVal(s[i]))

\* NUMBER_RE: (-?(?:0|[1-9]\d*))(\.\d+)?
ScanNumber(s, i) ==
    LET neg == i <= Len(s) /\ s[i] = "-"
        a == IF neg THEN i + 1 ELSE i
        b == IF a <= Len(s) /\ s[a] = "0" THEN a + 1 ELSE DigitsEnd(s, a)
        sign == IF neg THEN -1 ELSE 1
        c == IF b <= Len(s) /\ s[b] = "." THEN DigitsEnd(s, b + 1) ELSE b
    IN  IF b = a THEN JsonFail
        ELSE IF c > b + 1
        THEN JsonOk(NormFloat(sign * (DigitsValue(s, a, b, 0) * (10 ^ (c - b - 1))
                                        + DigitsValue(s, b + 1, c, 0)),
                              c - b - 1), c)
        ELSE JsonOk(PyInt(sign * DigitsValue(s, a, b, 0)), b)

\* s[i:i+len(lit)] == lit
MatchAt(s, i, lit) == i + Len(lit) - 1 <= Len(s) /\ SubSeq(s, i, i + Len(lit) - 1) = lit

RECURSIVE ParseValue(_, _), ParseObjectItems(_, _, _), ParseArrayItems(_, _, _)
\* py_make_scanner._scan_once
ParseValue(s, i) ==
    IF i > Len(s) THEN JsonFail
    ELSE CASE s[i] = QUOTE ->
                LET r == ScanString(s, i + 1, <<>>)
                IN  IF r.ok THEN JsonOk(PyStr(r.v), r.end) ELSE JsonFail
           [] s[i] = "{" ->
                LET j == SkipWs(s, i + 1)
                IN  IF j <= Len(s) /\ s[j] = "}" THEN JsonOk(PyDict(EmptyMap), j + 1)
                    ELSE ParseObjectItems(s, j, EmptyMap)
           [] s[i] = "[" ->
                LET j == SkipWs(s, i + 1)
                IN  IF j <= Len(s) /\ s[j] = "]" THEN JsonOk(PyList(<<>>), j + 1)
                    ELSE ParseArrayItems(s, j, <<>>)
           [] MatchAt(s, i, <<"n", "u", "l", "l">>) -> JsonOk(PyNone, i + 4)
           [] MatchAt(s, i, <<"t", "r", "u", "e">>) -> JsonOk(PyBool(TRUE), i + 4)
           [] MatchAt(s, i, <<"f", "a", "l", "s", "e">>) -> JsonOk(PyBool(FALSE), i + 5)
           [] OTHER -> ScanNumber(s, i)

\* JSONObject: j is the position where a quoted key must start
ParseObjectItems(s, j, acc) ==
    IF j > Len(s) \/ s[j] # QUOTE THEN JsonFail
    ELSE LET k == ScanString(s, j + 1, <<>>)
         IN  IF ~k.ok THEN JsonFail
             ELSE LET c == SkipWs(s, k.end)
                  IN  IF c > Len(s) \/ s[c] # ":" THEN JsonFail
                      ELSE LET v == ParseValue(s, SkipWs(s, c + 1))
                           IN  IF ~v.ok THEN JsonFail
                               ELSE LET e == SkipWs(s, v.end)
                                        acc2 == Put(acc, k.v, v.v)
                                    IN  IF e > Len(s) THEN JsonFail
                                        ELSE IF s[e] = "}" THEN JsonOk(PyDict(acc2), e + 1)
                                        ELSE IF s[e] = ","
                                        THEN ParseObjectItems(s, SkipWs(s, e + 1), acc2)
                                        ELSE JsonFail

\* JSONArray: j is the position where the next element must start
ParseArrayItems(s, j, acc) ==
    LET v == ParseValue(s, j)
    IN  IF ~v.ok THEN JsonFail
        ELSE LET e == SkipWs(s, v.end)
                 acc2 == Append(acc, v.v)
             IN  IF e > Len(s) THEN JsonFail
                 ELSE IF s[e] = "]" THEN JsonOk(PyList(acc2), e + 1)
                 ELSE IF s[e] = "," THEN ParseArrayItems(s, SkipWs(s, e + 1), acc2)
                 ELSE JsonFail

\* json.loads(data): [ok |-> FALSE] stands for JSONDecodeError
json_loads(data) ==
    LET r == ParseValue(data, SkipWs(data, 1))
    IN  IF r.ok /\ SkipWs(data, r.end) = Len(data) + 1
        THEN [ok |-> TRUE, v |-> r.v]
        ELSE JsonFail

(***************************************************************************)
(* Format detector                                                         *)
(***************************************************************************)
FormatTags == { "json", "csv", "key_value", "binary", "text" }

\* csv-before-json ordering, the way a reordered detector would decide
_detect_data_format_csv_first(data) ==
    IF "," \in Range(data) /\ CountChar(data, ",") + 1 >= 2 THEN "csv"
    ELSE IF /\ \/ StartsWith(data, "{") /\ EndsWith(data, "}")
               \/ StartsWith(data, "[") /\ EndsWith(data, "]")
            /\ json_loads(data).ok
    THEN "json"
    ELSE IF "=" \in Range(data) \/ ":" \in Range(data) THEN "key_value"
    ELSE IF \E i \in 1..Len(data) :
                /\ data[i] \notin { LF, CR, TAB }
                /\ (Ord(data[i]) < 32 \/ Ord(data[i]) > 126)
    THEN "binary"
    ELSE "text"

\* key-value-before-csv ordering, the way a detector that looks for '=' and
\* ':' before the comma would decide
_detect_data_format_kv_first(data) ==
    IF /\ \/ StartsWith(data, "{") /\ EndsWith(data, "}")
          \/ StartsWith(data, "[") /\ EndsWith(data, "]")
       /\ json_loads(data).ok
    THEN "json"
    ELSE IF "=" \in Range(data) \/ ":" \in Range(data) THEN "key_value"
    ELSE IF "," \in Range(data) /\ CountChar(data, ",") + 1 >= 2 THEN "csv"
    ELSE IF \E i \in 1..Len(data) :
                /\ data[i] \notin { LF, CR, TAB }
                /\ (Ord(data[i]) < 32 \/ Ord(data[i]) > 126)
    THEN "binary"
    ELSE "text"

\* USBMonitor._detect_data_format
_detect_data_format(data) ==
    IF /\ \/ StartsWith(data, "{") /\ EndsWith(data, "}")
          \/ StartsWith(data, "[") /\ EndsWith(data, "]")
       /\ json_loads(data).ok
    THEN "json"
    ELSE IF "," \in Range(data) /\ CountChar(data, ",") + 1 >= 2 THEN "csv"
    ELSE IF "=" \in Range(data) \/ ":" \in Range(data) THEN "key_value"
    ELSE IF \E i \in 1..Len(data) :
                /\ data[i] \notin { LF, CR, TAB }
                /\ (Ord(data[i]) < 32 \/ Ord(data[i]) > 126)
    THEN "binary"
    ELSE "text"

(***************************************************************************)
(* Format parsers                                                          *)
(***************************************************************************)
\* USBMonitor._parse_json_data: full decode, else the first {...} substring
\* matched by \{[^}]*\}; PyNone when neither decodes
_parse_json_data(data) ==
    LET full == json_loads(data)
        i == Find(data, "{", 1)
        j == IF i = 0 THEN 0 ELSE Find(data, "}", i + 1)
        part == IF j = 0 THEN JsonFail ELSE json_loads(SubSeq(data, i, j))
    IN  IF full.ok THEN full.v
        ELSE IF part.ok THEN part.v
        ELSE PyNone

\* csv.reader with the default (excel) dialect: the states of the reader
EOL == "EOL"

CsvStart == [state |-> "START_RECORD", field |-> <<>>, fields |-> <<>>,
             rows |-> <<>>, err |-> FALSE]

\* parse_save_field
CsvSaveField(st) == [st EXCEPT !.fields = Append(@, st.field), !.field = <<>>]

\* parse_process_char
CsvChar(st, c) ==
    LET startField(x) ==
            IF c \in { LF, CR, EOL }
            THEN [CsvSaveField(x) EXCEPT
                     !.state = IF c = EOL THEN "START_RECORD" ELSE "EAT_CRNL"]
            ELSE IF c = QUOTE THEN [x EXCEPT !.state = "IN_QUOTED_FIELD"]
            ELSE IF c = "," THEN [CsvSaveField(x) EXCEPT !.state = "START_FIELD"]
            ELSE [x EXCEPT !.field = Append(@, c), !.state = "IN_FIELD"]
    IN  CASE st.state = "START_RECORD" ->
                IF c = EOL THEN st
                ELSE IF c \in { LF, CR } THEN [st EXCEPT !.state = "EAT_CRNL"]
                ELSE startField(st)
          [] st.state = "START_FIELD" -> startField(st)
          [] st.state = "IN_FIELD" ->
                IF c \in { LF, CR, EOL }
                THEN [CsvSaveField(st) EXCEPT
                         !.state = IF c = EOL THEN "START_RECORD" ELSE "EAT_CRNL"]
                ELSE IF c = "," THEN [CsvSaveField(st) EXCEPT !.state = "START_FIELD"]
                ELSE [st EXCEPT !.field = Append(@, c)]
          [] st.state = "IN_QUOTED_FIELD" ->
                IF c = EOL THEN st
                ELSE IF c = QUOTE THEN [st EXCEPT !.state = "QUOTE_IN_QUOTED_FIELD"]
                ELSE [st EXCEPT !.field = Append(@, c)]
          [] st.state = "QUOTE_IN_QUOTED_FIELD" ->
                IF c = QUOTE
                THEN [st EXCEPT !.field = Append(@, c), !.state = "IN_QUOTED_FIELD"]
                ELSE IF c = "," THEN [CsvSaveField(st) EXCEPT !.state = "START_FIELD"]
                ELSE IF c \in { LF, CR, EOL }
                THEN [CsvSaveField(st) EXCEPT
                         !.state = IF c = EOL THEN "START_RECORD" ELSE "EAT_CRNL"]
                ELSE [st EXCEPT !.field = Append(@, c), !.state = "IN_FIELD"]
          [] st.state = "EAT_CRNL" ->
                IF c \in { LF, CR } THEN st
                ELSE IF c = EOL THEN [st EXCEPT !.state = "START_RECORD"]
                ELSE [st EXCEPT !.err = TRUE]

\* a row is complete when the reader is back in START_RECORD
CsvEmit(st) == [st EXCEPT !.rows = Append(@, st.fields), !.fields = <<>>]

\* the end of one line of the StringIO: Reader_iternext's loop condition
CsvEndLine(st) ==
    LET st1 == CsvChar(st, EOL)
    IN  IF ~st1.err /\ st1.state = "START_RECORD" THEN CsvEmit(st1) ELSE st1

\* list(csv.reader(io.StringIO(data))): lines end at each '\n'
RECURSIVE CsvFeed(_, _, _)
CsvFeed(st, data, i) ==
    IF st.err THEN st
    ELSE IF i > Len(data)
    THEN LET st1 == IF data # <<>> /\ data[Len(data)] # LF THEN CsvEndLine(st) ELSE st
         IN  IF ~st1.err /\ (st1.field # <<>> \/ st1.state = "IN_QUOTED_FIELD")
             THEN CsvEmit(CsvSaveField(st1))
             ELSE st1
    ELSE LET st1 == CsvChar(st, data[i])
         IN  CsvFeed(IF data[i] = LF /\ ~st1.err THEN CsvEndLine(st1) ELSE st1,
                     data, i + 1)

\* dict(zip(headers, values))
RECURSIVE ZipDict(_, _, _, _)
ZipDict(headers, values, i, acc) ==
    IF i > Len(headers) \/ i > Len(values) THEN acc
    ELSE ZipDict(headers, values, i + 1, Put(acc, headers[i], PyStr(values[i])))

\* USBMonitor._parse_csv_data
_parse_csv_data(data) ==
    LET r == CsvFeed(CsvStart, data, 1)
    IN  IF ~r.err /\ Len(r.rows) >= 2
        THEN PyDict(ZipDict(r.rows[1], r.rows[2], 1, EmptyMap))
        ELSE PyNone

KvSeparators == { ",", ";", LF, CR, TAB }

\* re.split(r'[,;\n\r\t]+', data)
RECURSIVE ReSplit(_, _, _, _)
ReSplit(data, i, cur, out) ==
    IF i > Len(data) THEN Append(out, cur)
    ELSE IF data[i] \in KvSeparators
    THEN IF i > 1 /\ data[i - 1] \in KvSeparators
         THEN ReSplit(data, i + 1, cur, out)
         ELSE ReSplit(data, i + 1, <<>>, Append(out, cur))
    ELSE ReSplit(data, i + 1, Append(cur, data[i]), out)

\* key, value = pair.split(sep, 1); result[key.strip()] = value.strip()
KvAssign(result, pair, sep) ==
    LET p == Find(pair, sep, 1)
    IN  Put(result, Strip(SubSeq(pair, 1, p - 1)),
            PyStr(Strip(SubSeq(pair, p + 1, Len(pair)))))

\* the key/value separator looked for in the other order
KvPairColonFirst(result, pair) ==
    IF ":" \in Range(pair) THEN KvAssign(result, pair, ":")
    ELSE IF "=" \in Range(pair) THEN KvAssign(result, pair, "=")
    ELSE result

\* one iteration of the loop over the pairs
KvPair(result, pair) ==
    IF "=" \in Range(pair) THEN KvAssign(result, pair, "=")
    ELSE IF ":" \in Range(pair) THEN KvAssign(result, pair, ":")
    ELSE result

RECURSIVE KvLoop(_, _, _)
KvLoop(pairs, i, result) ==
    IF i > Len(pairs) THEN result
    ELSE KvLoop(pairs, i + 1, KvPair(result, pairs[i]))

\* USBMonitor._parse_key_value_data
_parse_key_value_data(data) ==
    LET result == KvLoop(ReSplit(data, 1, <<>>, <<>>), 1, EmptyMap)
    IN  IF DOMAIN result # {} THEN PyDict(result) ELSE PyNone

HexDigits == << "0", "1", "2", "3", "4", "5", "6", "7", "8", "9",
               "a", "b", "c", "d", "e", "f" >>

\* data.encode().hex(), for characters below 128 (one byte each)
RECURSIVE HexOf(_, _, _)
HexOf(data, i, acc) ==
    IF i > Len(data) THEN acc
    ELSE HexOf(data, i + 1,
               acc \o << HexDigits[(Ord(data[i]) \div 16) + 1],
                         HexDigits[(Ord(data[i]) % 16) + 1] >>)

\* USBMonitor._parse_binary_data
_parse_binary_data(data) ==
    PyDict((<<"h", "e", "x">> :> PyStr(HexOf(data, 1, <<>>)))
           @@ (<<"b", "i", "n", "a", "r", "y", "_", "l", "e", "n", "g", "t", "h">>
                 :> PyInt(Len(data))))

\* USBMonitor._parse_text_data
_parse_text_data(data) ==
    PyDict((<<"t", "e", "x", "t">> :> PyStr(data))
           @@ (<<"l", "e", "n", "g", "t", "h">> :> PyInt(Len(data))))

(***************************************************************************)
(* Sensor normaliser                                                       *)
(***************************************************************************)
SensorKinds ==
    { "temperature",
      "humidity",
      "pressure",
      "voltage",
      "current",
      "state_of_charge",
      "speed",
      "distance",
      "light",
      "sound" }

\* field_mappings: the aliases of each canonical kind, in priority order
field_mappings(kind) ==
    CASE kind = "temperature" ->
        << <<"t", "e", "m", "p">>,
           <<"t", "e", "m", "p", "e", "r", "a", "t", "u", "r", "e">>,
           <<"c", "e", "l", "s", "i", "u", "s">>,
           <<"f", "a", "h", "r", "e", "n", "h", "e", "i", "t">>,
           <<"c">>,
           <<"f">> >>
    [] kind = "humidity" ->
        << <<"h", "u", "m", "i", "d", "i", "t", "y">>,
           <<"h", "u", "m">>,
           <<"r", "h">>,
           <<"r", "e", "l", "a", "t", "i", "v", "e", "_", "h", "u", "m", "i", "d", "i", "t", "y">> >>
    [] kind = "pressure" ->
        << <<"p", "r", "e", "s", "s", "u", "r", "e">>,
           <<"b", "a", "r", "o", "m", "e", "t", "r", "i", "c">>,
           <<"a", "t", "m">>,
           <<"p", "a">>,
           <<"h", "p", "a">> >>
    [] kind = "voltage" ->
        << <<"v", "o", "l", "t", "a", "g", "e">>,
           <<"v", "o", "l", "t">>,
           <<"v">>,
           <<"b", "a", "t", "t", "e", "r", "y", "_", "v">>,
           <<"v", "o", "l", "t", "s">> >>
    [] kind = "current" ->
        << <<"c", "u", "r", "r", "e", "n", "t">>,
           <<"a", "m", "p">>,
           <<"a", "m", "p", "e", "r", "e">>,
           <<"m", "a">>,
           <<"b", "a", "t", "t", "e", "r", "y", "_", "i">> >>
    [] kind = "state_of_charge" ->
        << <<"s", "o", "c">>,
           <<"b", "a", "t", "t", "e", "r", "y", "_", "l", "e", "v", "e", "l">>,
           <<"c", "h", "a", "r", "g", "e">>,
           <<"c", "a", "p", "a", "c", "i", "t", "y">> >>
    [] kind = "speed" ->
        << <<"r", "p", "m">>,
           <<"s", "p", "e", "e", "d">>,
           <<"v", "e", "l", "o", "c", "i", "t", "y">>,
           <<"r", "e", "v", "o", "l", "u", "t", "i", "o", "n">> >>
    [] kind = "distance" ->
        << <<"d", "i", "s", "t", "a", "n", "c", "e">>,
           <<"d", "i", "s", "t">>,
           <<"r", "a", "n", "g", "e">>,
           <<"m", "e", "t", "e", "r", "s">>,
           <<"f", "e", "e", "t">> >>
    [] kind = "light" ->
        << <<"l", "i", "g", "h", "t">>,
           <<"l", "u", "x">>,
           <<"b", "r", "i", "g", "h", "t", "n", "e", "s", "s">>,
           <<"i", "l", "l", "u", "m", "i", "n", "a", "t", "i", "o", "n">> >>
    [] kind = "sound" ->
        << <<"s", "o", "u", "n", "d">>,
           <<"d", "b">>,
           <<"d", "e", "c", "i", "b", "e", "l">>,
           <<"n", "o", "i", "s", "e">>,
           <<"a", "u", "d", "i", "o">> >>

\* a residue that drops the minus signs as well
NumericResidueNoMinus(s) == SelectSeq(s, LAMBDA c : IsDigit(c) \/ c = ".")

\* re.sub(r'[^\d.-]', '', value)
NumericResidue(s) == SelectSeq(s, LAMBDA c : IsDigit(c) \/ c = "." \/ c = "-")

\* float(s) for s made of digits, '.' and '-': [ok |-> FALSE] is ValueError
ToFloat(s) ==
    LET neg == StartsWith(s, "-")
        a == IF neg THEN 2 ELSE 1
        b == DigitsEnd(s, a)
        dot == b <= Len(s) /\ s[b] = "."
        c == IF dot THEN DigitsEnd(s, b + 1) ELSE b
        nfrac == IF dot THEN c - b - 1 ELSE 0
        sign == IF neg THEN -1 ELSE 1
    IN  IF c = Len(s) + 1 /\ (b - a) + nfrac >= 1
        THEN [ok |-> TRUE,
              v |-> NormFloat(sign * (DigitsValue(s, a, b, 0) * (10 ^ nfrac)
                                        + DigitsValue(s, b + 1, c, 0)), nfrac)]
        ELSE [ok |-> FALSE]

\* the conversion of one matched value: a text value is replaced by the
\* float of its numeric residue; [ok |-> FALSE] is the exception of float()
Coerce(value) ==
    IF value.t = "str"
    THEN LET numeric_value == NumericResidue(value.s)
         IN  IF numeric_value # <<>> THEN ToFloat(numeric_value)
             ELSE [ok |-> TRUE, v |-> value]
    ELSE [ok |-> TRUE, v |-> value]

Unset == [set |-> FALSE]

\* the loop over one kind's aliases, with a break in the handler as well
RECURSIVE ScanAliasesBreakAlways(_, _, _, _)
ScanAliasesBreakAlways(d, names, i, cur) ==
    IF i > Len(names) THEN cur
    ELSE IF names[i] \notin DOMAIN d THEN ScanAliasesBreakAlways(d, names, i + 1, cur)
    ELSE LET c == Coerce(d[names[i]])
         IN  [set |-> TRUE, v |-> IF c.ok THEN c.v ELSE d[names[i]]]

\* the loop over one kind's aliases that never stops at a match
RECURSIVE ScanAliasesNoBreak(_, _, _, _)
ScanAliasesNoBreak(d, names, i, cur) ==
    IF i > Len(names) THEN cur
    ELSE IF names[i] \notin DOMAIN d THEN ScanAliasesNoBreak(d, names, i + 1, cur)
    ELSE LET c == Coerce(d[names[i]])
         IN  ScanAliasesNoBreak(d, names, i + 1,
                 [set |-> TRUE, v |-> IF c.ok THEN c.v ELSE d[names[i]]])

\* the loop over one kind's aliases: a converted value ends the loop (break);
\* a value whose conversion raises is stored raw and the loop goes on
RECURSIVE ScanAliases(_, _, _, _)
ScanAliases(d, names, i, cur) ==
    IF i > Len(names) THEN cur
    ELSE IF names[i] \notin DOMAIN d THEN ScanAliases(d, names, i + 1, cur)
    ELSE LET c == Coerce(d[names[i]])
         IN  IF c.ok THEN [set |-> TRUE, v |-> c.v]
             ELSE ScanAliases(d, names, i + 1, [set |-> TRUE, v |-> d[names[i]]])

AllAliases == UNION { Range(field_mappings(k)) : k \in SensorKinds }

\* a in s, for two strings
IsSubstring(a, s) ==
    \E i \in 1..(Len(s) - Len(a) + 1) : SubSeq(s, i, i + Len(a) - 1) = a

\* USBMonitor._extract_sensor_data; [ok |-> FALSE] is an exception that
\* leaves the function (the membership test or the handler's own lookup)
_extract_sensor_data(parsed) ==
    IF ~Truthy(parsed) THEN [ok |-> TRUE, v |-> EmptyMap]
    ELSE CASE parsed.t = "dict" ->
                LET got == [k \in SensorKinds |->
                               ScanAliases(parsed.d, field_mappings(k), 1, Unset)]
                IN  [ok |-> TRUE,
                     v |-> [k \in { x \in SensorKinds : got[x].set } |-> got[k].v]]
           [] parsed.t = "list" ->
                IF \E a \in AllAliases : PyStr(a) \in Range(parsed.l)
                THEN [ok |-> FALSE]
                ELSE [ok |-> TRUE, v |-> EmptyMap]
           [] parsed.t = "str" ->
                IF \E a \in AllAliases : IsSubstring(a, parsed.s)
                THEN [ok |-> FALSE]
                ELSE [ok |-> TRUE, v |-> EmptyMap]
           [] OTHER -> [ok |-> FALSE]

(***************************************************************************)
(* parse_universal_data                                                    *)
(***************************************************************************)
None == PyNone

\* dict.get(key)
Get(d, k) == IF k \in DOMAIN d THEN d[k] ELSE None

\* a or b or c
OrChain(a, b, c) == IF Truthy(a) THEN a ELSE IF Truthy(b) THEN b ELSE c

\* USBDataResponse field types: formatted_data: Optional[Dict[str, Any]],
\* sensor_data: Optional[Dict[str, Union[str, int, float]]]
ValidResponse(fd, sd) ==
    /\ fd.t \in { "none", "dict" }
    /\ \A k \in DOMAIN sd : sd[k].t \in { "str", "int", "float", "bool" }

\* raw_data.strip().replace('\x00', '')
CleanData(raw) == RemoveChar(Strip(raw), NUL)

\* the selected parser
ParseAs(fmt, clean_data) ==
    CASE fmt = "json" -> _parse_json_data(clean_data)
      [] fmt = "csv" -> _parse_csv_data(clean_data)
      [] fmt = "key_value" -> _parse_key_value_data(clean_data)
      [] fmt = "binary" -> _parse_binary_data(clean_data)
      [] fmt = "text" -> _parse_text_data(clean_data)
      [] OTHER -> None

\* the element of a one-element set; { e(x) : x \in { v } } names the value
\* v once, as an assignment to a local does
Only(S) == CHOOSE x \in S : TRUE

\* the legacy field filled from the first truthy of three normalised kinds
Legacy(sd, a, b, c) ==
    IF DOMAIN sd # {} THEN OrChain(Get(sd, a), Get(sd, b), Get(sd, c)) ELSE None

\* parse_universal_data from the normaliser's result on: None when the
\* normaliser or the response validation raised
CreateResponse(clean_data, data_size, fmt, device_info, parsed_result, extracted) ==
    IF ~extracted.ok THEN None
    ELSE IF ~ValidResponse(parsed_result, extracted.v) THEN None
    ELSE [t |-> "USBDataResponse",
          data_size |-> data_size,
          raw_data |-> clean_data,
          formatted_data |-> parsed_result,
          data_type |-> fmt,
          device_info |-> device_info,
          sensor_data |-> extracted.v,
          soc |-> Legacy(extracted.v, "soc", "state_of_charge", "battery_level"),
          battery_i |-> Legacy(extracted.v, "battery_i", "current", "amp"),
          battery_v |-> Legacy(extracted.v, "battery_v", "voltage", "volt"),
          temp |-> Legacy(extracted.v, "temp", "temperature", "celsius"),
          rpm |-> Legacy(extracted.v, "rpm", "speed", "revolution")]

\* parse_universal_data from the parser's result on
ExtractAndRespond(clean_data, data_size, fmt, device_info, parsed_result) ==
    Only({ CreateResponse(clean_data, data_size, fmt, device_info, parsed_result, extracted) :
             extracted \in { IF Truthy(parsed_result)
                             THEN _extract_sensor_data(parsed_result)
                             ELSE [ok |-> TRUE, v |-> EmptyMap] } })

\* parse_universal_data from the format on
ParseAndRespond(clean_data, data_size, fmt, device_info) ==
    Only({ ExtractAndRespond(clean_data, data_size, fmt, device_info, parsed_result) :
             parsed_result \in { ParseAs(fmt, clean_data) } })

\* parse_universal_data from the cleaned line on
DetectAndRespond(clean_data, data_size, fmt_hint, device_info) ==
    IF clean_data = <<>> THEN None
    ELSE Only({ ParseAndRespond(clean_data, data_size, fmt, device_info) :
                  fmt \in { IF fmt_hint = "auto" THEN _detect_data_format(clean_data)
                            ELSE fmt_hint } })

\* USBMonitor.parse_universal_data: None when the line is empty or when an
\* exception (normaliser, response validation) reaches the outer handler
parse_universal_data(raw, data_size, fmt_hint, device_info) ==
    Only({ DetectAndRespond(clean_data, data_size, fmt_hint, device_info) :
             clean_data \in { CleanData(raw) } })

\* an empty dict
EmptyInfo == [k \in {} |-> None]

(***************************************************************************)
(* USBMonitor: connection state                                            *)
(*                                                                         *)
(* A device path is a sequence of chunks ("/dev/", "ttyUSB", "0").  A      *)
(* monitor operation maps a state s = [m |-> the monitor's fields,         *)
(* tr |-> the transports open at the operating system] to the state it     *)
(* leaves, together with what it returns.  Serial.close() is taken not to  *)
(* raise.                                                                  *)
(***************************************************************************)
\* USBMonitor.__init__
NewMonitor ==
    [serial_connection |-> None,
     is_connected |-> FALSE,
     device_info |-> EmptyInfo,
     latest_data |-> None,
     connection_history |-> <<>>]

\* no transport open; peak is the largest number open at once during the
\* last operation
NoTransport == [open |-> 0, peak |-> 0]

Max(a, b) == IF a >= b THEN a ELSE b

\* serial.Serial(port=..., baudrate=...) returned an open transport
OpenTransport(tr) == [open |-> tr.open + 1, peak |-> Max(tr.peak, tr.open + 1)]

\* Serial.close() on an open transport
CloseTransport(tr) == [tr EXCEPT !.open = @ - 1]

\* os.getenv('RENDER') or os.getenv('CLOUD') or not SERIAL_AVAILABLE
CloudMode(e) == e.cloud

\* a disconnect that resets the flags and leaves the transport open
disconnect_keep_open(s) ==
    IF s.m.serial_connection # None /\ s.m.serial_connection.is_open
    THEN [s EXCEPT !.m.is_connected = FALSE, !.m.device_info = EmptyInfo]
    ELSE s

\* USBMonitor.disconnect
disconnect(s) ==
    IF s.m.serial_connection # None /\ s.m.serial_connection.is_open
    THEN [m |-> [s.m EXCEPT !.serial_connection.is_open = FALSE,
                            !.is_connected = FALSE,
                            !.device_info = EmptyInfo],
          tr |-> CloseTransport(s.tr)]
    ELSE s

\* USBMonitor._connect_cloud_device
_connect_cloud_device(s, device_path, baudrate, t) ==
    [m |-> [s.m EXCEPT
              !.is_connected = TRUE,
              !.device_info =
                  [device |-> device_path,
                   description |-> "Cloud Device Simulation",
                   baudrate |-> IF Truthy(baudrate) THEN baudrate.i ELSE 115200,
                   timestamp |-> t,
                   environment |-> "cloud"]],
     tr |-> s.tr,
     ret |-> TRUE]

\* str.replace of the chunk pair <<a, b>> by <<c>>
RECURSIVE ReplacePair(_, _, _, _)
ReplacePair(path, a, b, c) ==
    IF Len(path) < 2 THEN path
    ELSE IF path[1] = a /\ path[2] = b
    THEN <<c>> \o ReplacePair(SubSeq(path, 3, Len(path)), a, b, c)
    ELSE <<path[1]>> \o ReplacePair(Tail(path), a, b, c)

\* USBMonitor._normalize_device_path
_normalize_device_path(system, device_path) ==
    IF system = "windows"
    THEN IF StartsWith(device_path, "COM") THEN device_path
         ELSE IF StartsWith(device_path, "/dev/")
         THEN ReplacePair(ReplacePair(device_path, "/dev/", "ttyUSB", "COM"),
                          "/dev/", "ttyACM", "COM")
         ELSE <<"COM">> \o device_path
    ELSE IF system \in { "linux", "darwin" }
    THEN IF StartsWith(device_path, "/dev/") THEN device_path
         ELSE <<"/dev/">> \o device_path
    ELSE device_path

test_baudrates == << 115200, 9600, 57600, 38400, 19200, 230400, 460800, 921600 >>

\* USBMonitor._detect_baudrate: probe is the position of the first baud
\* rate at which the trial transport opens, 0 when none opens
_detect_baudrate(s, probe) ==
    IF probe = 0 THEN [s |-> s, baudrate |-> 115200]
    ELSE [s |-> [s EXCEPT !.tr = CloseTransport(OpenTransport(s.tr))],
          baudrate |-> test_baudrates[probe]]

connection_strategies ==
    << [timeout |-> 1, parity |-> "N", stopbits |-> 1, bytesize |-> 8],
       [timeout |-> 2, parity |-> "E", stopbits |-> 1, bytesize |-> 8],
       [timeout |-> 1, parity |-> "N", stopbits |-> 2, bytesize |-> 7] >>

\* the first port of the list whose device is the path, or 0
RECURSIVE MatchingPort(_, _, _)
MatchingPort(portList, device_path, i) ==
    IF i > Len(portList) THEN 0
    ELSE IF portList[i].device = device_path THEN i
    ELSE MatchingPort(portList, device_path, i + 1)

\* USBMonitor._get_enhanced_device_info, when comports() does not raise
_get_enhanced_device_info(portList, system, t, device_path, baudrate, connection_params) ==
    LET device_info ==
            [device |-> device_path,
             baudrate |-> baudrate,
             connection_params |-> connection_params,
             connection_time |-> t,
             os |-> system]
        i == MatchingPort(portList, device_path, 1)
    IN  IF i = 0 THEN device_info
        ELSE device_info @@
             [description |-> portList[i].description,
              manufacturer |-> portList[i].manufacturer,
              vid |-> portList[i].vid,
              pid |-> portList[i].pid,
              serial_number |-> portList[i].serial_number,
              location |-> portList[i].location,
              hwid |-> portList[i].hwid]

\* the handler of a failed strategy: close the held transport, if any
CloseHeld(s) ==
    IF s.m.serial_connection # None /\ s.m.serial_connection.is_open
    THEN [m |-> [s.m EXCEPT !.serial_connection.is_open = FALSE],
          tr |-> CloseTransport(s.tr)]
    ELSE s

\* the loop over connection_strategies from strategy i on; oc.strategy[i]
\* is "fail" when serial.Serial raises with strategy i, "raise" when it
\* opens and the metadata lookup that follows raises, "open" otherwise
RECURSIVE TryStrategies(_, _, _, _, _, _, _, _)
TryStrategies(s, portList, system, t, device_path, baudrate, i, oc) ==
    IF i > Len(connection_strategies)
    THEN [m |-> [s.m EXCEPT !.connection_history =
                    Append(@, [device |-> device_path,
                               baudrate |-> baudrate,
                               timestamp |-> t,
                               success |-> FALSE,
                               error |-> "All connection strategies failed"])],
          tr |-> s.tr,
          ret |-> FALSE]
    ELSE IF oc.strategy[i] = "fail"
    THEN TryStrategies(CloseHeld(s), portList, system, t, device_path, baudrate, i + 1, oc)
    ELSE LET opened ==
                 [m |-> [s.m EXCEPT
                           !.serial_connection =
                               [t |-> "Serial", port |-> device_path,
                                baudrate |-> baudrate, is_open |-> TRUE],
                           !.is_connected = TRUE],
                  tr |-> OpenTransport(s.tr)]
         IN  IF oc.strategy[i] = "raise"
             THEN TryStrategies(CloseHeld(opened), portList, system, t, device_path,
                                baudrate, i + 1, oc)
             ELSE [m |-> [opened.m EXCEPT
                            !.device_info =
                                _get_enhanced_device_info(portList, system, t, device_path,
                                                          baudrate, connection_strategies[i]),
                            !.connection_history =
                                Append(@, [device |-> device_path,
                                           baudrate |-> baudrate,
                                           timestamp |-> t,
                                           success |-> TRUE])],
                   tr |-> opened.tr,
                   ret |-> TRUE]

\* USBMonitor.connect_to_device; oc gives the collaborators' behaviour:
\* oc.normalize = "raise" when path normalisation raises, oc.probe the
\* outcome of the baud rate probe, oc.strategy as above; baudrate is None
\* or an int
connect_to_device(s, e, portList, t, device_path, baudrate, auto_detect_baudrate, oc) ==
    LET s1 == IF s.m.is_connected THEN disconnect(s) ELSE s
    IN  IF CloudMode(e) THEN _connect_cloud_device(s1, device_path, baudrate, t)
        ELSE IF oc.normalize = "raise" THEN [m |-> s1.m, tr |-> s1.tr, ret |-> FALSE]
        ELSE LET path == _normalize_device_path(e.system, device_path)
                 probed == IF baudrate = None \/ auto_detect_baudrate
                           THEN _detect_baudrate(s1, oc.probe)
                           ELSE [s |-> s1, baudrate |-> baudrate.i]
             IN  TryStrategies(probed.s, portList, e.system, t, path, probed.baudrate, 1, oc)

\* the values random.uniform and random.randint draw: the ends of the ranges
CloudReadings ==
    { [temperature |-> PyFloat(20, 0), humidity |-> PyFloat(40, 0),
       pressure |-> PyFloat(980, 0), battery_voltage |-> PyFloat(32, 1),
       signal_strength |-> PyInt(-80)],
      [temperature |-> PyFloat(35, 0), humidity |-> PyFloat(80, 0),
       pressure |-> PyFloat(1020, 0), battery_voltage |-> PyFloat(42, 1),
       signal_strength |-> PyInt(-30)] }

\* USBMonitor._get_cloud_data; the text json.dumps(cloud_data) and its
\* length are kept as the data they are made from
_get_cloud_data(m, t, reading) ==
    LET cloud_data ==
            [timestamp |-> PyInt(t),
             temperature |-> reading.temperature,
             humidity |-> reading.humidity,
             pressure |-> reading.pressure,
             battery_voltage |-> reading.battery_voltage,
             signal_strength |-> reading.signal_strength,
             device_id |-> PyStr(<<"CLOUD_DEVICE_001">>),
             status |-> PyStr(<<"active">>)]
    IN  [t |-> "USBDataResponse",
         data_size |-> [len |-> [json_dumps |-> cloud_data]],
         raw_data |-> [json_dumps |-> cloud_data],
         formatted_data |-> PyDict(cloud_data),
         data_type |-> "json",
         device_info |-> m.device_info,
         sensor_data |-> cloud_data,
         soc |-> None,
         battery_i |-> None,
         battery_v |-> cloud_data.battery_voltage,
         temp |-> cloud_data.temperature,
         rpm |-> None]

\* read_data past the parse: the response becomes the latest data
StoreLatest(s, parsed) ==
    IF parsed # None
    THEN [m |-> [s.m EXCEPT !.latest_data = parsed], tr |-> s.tr,
          ret |-> parsed, transport_read |-> TRUE]
    ELSE [m |-> s.m, tr |-> s.tr, ret |-> None, transport_read |-> TRUE]

\* read_data past the cloud check; oc gives the transport's behaviour:
\* oc.kind = "raise" when a transport call raises, else oc.line are the
\* bytes it delivers (none when empty); transport_read tells whether the
\* transport was asked for bytes.  A closed transport raises when asked.
ReadTransport(s, fmt, oc) ==
    IF s.m.serial_connection = None
    THEN [m |-> s.m, tr |-> s.tr, ret |-> None, transport_read |-> FALSE]
    ELSE IF ~s.m.serial_connection.is_open \/ oc.kind = "raise"
    THEN [m |-> s.m, tr |-> s.tr, ret |-> None, transport_read |-> TRUE]
    ELSE IF Strip(oc.line) = <<>>
    THEN [m |-> s.m, tr |-> s.tr, ret |-> None, transport_read |-> TRUE]
    ELSE Only({ StoreLatest(s, parsed) :
                  parsed \in { parse_universal_data(Strip(oc.line), Len(oc.line), fmt,
                                                    s.m.device_info) } })

\* a read that goes to the transport without looking at the connected flag
read_data_unguarded(s, e, t, fmt, oc) ==
    IF CloudMode(e)
    THEN [m |-> s.m, tr |-> s.tr, ret |-> _get_cloud_data(s.m, t, oc.cloud),
          transport_read |-> FALSE]
    ELSE ReadTransport(s, fmt, oc)

\* USBMonitor.read_data
read_data(s, e, t, fmt, oc) ==
    IF ~s.m.is_connected
    THEN [m |-> s.m, tr |-> s.tr, ret |-> None, transport_read |-> FALSE]
    ELSE IF CloudMode(e)
    THEN [m |-> s.m, tr |-> s.tr, ret |-> _get_cloud_data(s.m, t, oc.cloud),
          transport_read |-> FALSE]
    ELSE ReadTransport(s, fmt, oc)

(***************************************************************************)
(* USBMonitor: enumeration and auto-detection                              *)
(*                                                                         *)
(* The description and the manufacturer of a port are None or a str.       *)
(***************************************************************************)
Upper == << "A", "B", "C", "D", "E", "F", "G", "H", "I", "J", "K", "L", "M",
            "N", "O", "P", "Q", "R", "S", "T", "U", "V", "W", "X", "Y", "Z" >>

\* str.lower
lower(text) ==
    [i \in 1..Len(text) |->
        IF text[i] \in Range(Upper) THEN Lower[IndexOf(Upper, text[i])] ELSE text[i]]

\* value or "", for a value that is None or a str
OrEmpty(value) == IF value = None THEN <<>> ELSE value.s

\* self.device_patterns without "generic", in the order of the dict
device_patterns ==
    << [device_type |-> "arduino",
        manufacturer |-> << <<"A", "r", "d", "u", "i", "n", "o">>,
                            <<"A", "d", "a", "f", "r", "u", "i", "t">> >>,
        description |-> <<>>, baudrate |-> 115200],
       [device_type |-> "esp32",
        manufacturer |-> << <<"E", "s", "p", "r", "e", "s", "s", "i", "f">>,
                            <<"L", "i", "l", "y", "G", "O">> >>,
        description |-> <<>>, baudrate |-> 115200],
       [device_type |-> "raspberry_pi",
        manufacturer |-> << <<"R", "a", "s", "p", "b", "e", "r", "r", "y", " ", "P", "i">> >>,
        description |-> <<>>, baudrate |-> 115200],
       [device_type |-> "sensor",
        manufacturer |-> <<>>,
        description |-> << <<"s", "e", "n", "s", "o", "r">>, <<"t", "e", "m", "p">>,
                           <<"h", "u", "m", "i", "d", "i", "t", "y">>,
                           <<"p", "r", "e", "s", "s", "u", "r", "e">> >>,
        baudrate |-> 9600],
       [device_type |-> "gps",
        manufacturer |-> <<>>,
        description |-> << <<"g", "p", "s">>,
                           <<"n", "a", "v", "i", "g", "a", "t", "i", "o", "n">> >>,
        baudrate |-> 9600] >>

\* whether pattern i matches the port: a listed manufacturer, lowered, in
\* the lowered manufacturer, or a listed description in the lowered
\* description
PatternMatches(i, port) ==
    \/ \E j \in 1..Len(device_patterns[i].manufacturer) :
           IsSubstring(lower(device_patterns[i].manufacturer[j]),
                       lower(OrEmpty(port.manufacturer)))
    \/ \E j \in 1..Len(device_patterns[i].description) :
           IsSubstring(device_patterns[i].description[j],
                       lower(OrEmpty(port.description)))

\* USBMonitor._detect_device_type: the first pattern that matches, else
\* generic
_detect_device_type(port) ==
    IF \E i \in 1..Len(device_patterns) : PatternMatches(i, port)
    THEN Only({ [device_type |-> device_patterns[i].device_type,
                 recommended_baudrate |-> device_patterns[i].baudrate,
                 supported_formats |-> <<"json", "text", "csv">>] :
                  i \in { CHOOSE i \in 1..Len(device_patterns) :
                              /\ PatternMatches(i, port)
                              /\ \A k \in 1..(i - 1) : ~PatternMatches(k, port) } })
    ELSE [device_type |-> "generic", recommended_baudrate |-> 115200,
          supported_formats |-> <<"json", "text", "csv", "binary">>]

\* USBMonitor._get_cloud_devices
_get_cloud_devices ==
    << [device |-> <<"/dev/", "cloud/cp2102">>,
        description |-> PyStr(<<"C", "P", "2", "1", "0", "2", " ", "U", "S", "B", " ", "t",
                                "o", " ", "U", "A", "R", "T", " ", "B", "r", "i", "d", "g",
                                "e", " ", "C", "o", "n", "t", "r", "o", "l", "l", "e", "r">>),
        manufacturer |-> PyStr(<<"S", "i", "l", "i", "c", "o", "n", " ", "L", "a", "b", "s">>),
        vid |-> 4292, pid |-> 60000, serial_number |-> "CLOUD001",
        location |-> "cloud-1", hwid |-> "CLOUD VID:PID=10C4:EA60",
        is_connected |-> FALSE, device_type |-> "generic",
        recommended_baudrate |-> 115200,
        supported_formats |-> <<"json", "text", "csv", "binary">>],
       [device |-> <<"/dev/", "cloud/sensor">>,
        description |-> PyStr(<<"T", "e", "m", "p", "e", "r", "a", "t", "u", "r", "e", " ",
                                "S", "e", "n", "s", "o", "r">>),
        manufacturer |-> PyStr(<<"C", "l", "o", "u", "d", " ", "L", "a", "b", "s">>),
        vid |-> 4660, pid |-> 22136, serial_number |-> "CLOUD002",
        location |-> "cloud-2", hwid |-> "CLOUD VID:PID=1234:5678",
        is_connected |-> FALSE, device_type |-> "sensor",
        recommended_baudrate |-> 9600,
        supported_formats |-> <<"json", "text">>] >>

\* the USBDeviceInfo of one port
DeviceInfoOf(m, port) ==
    [device |-> port.device,
     description |-> IF OrEmpty(port.description) = <<>>
                     THEN PyStr(<<"U", "n", "k", "n", "o", "w", "n", " ",
                                  "D", "e", "v", "i", "c", "e">>)
                     ELSE port.description,
     manufacturer |-> port.manufacturer,
     vid |-> port.vid, pid |-> port.pid, serial_number |-> port.serial_number,
     location |-> port.location, hwid |-> port.hwid,
     is_connected |-> ("device" \in DOMAIN m.device_info
                         /\ m.device_info.device = port.device)]
        @@ _detect_device_type(port)

\* USBMonitor.get_available_devices; comports is "raise" when the
\* enumeration raises.  The second cloud check of the source is reached only
\* past the first, so it never applies.
get_available_devices(m, e, portList, comports) ==
    IF CloudMode(e) THEN _get_cloud_devices
    ELSE IF comports = "raise" THEN _get_cloud_devices
    ELSE [i \in 1..Len(portList) |-> DeviceInfoOf(m, portList[i])]

\* a priority order that puts sensors first
priority_devices_sensor_first ==
    << "sensor", "arduino", "esp32", "raspberry_pi", "gps", "generic" >>

priority_devices == << "arduino", "esp32", "raspberry_pi", "sensor", "gps", "generic" >>

\* the nested loops of auto_detect_and_connect: the first device of the
\* first type of priority_devices that some device has, None when no
\* device has a listed type
RECURSIVE Recommended(_, _)
Recommended(devices, p) ==
    IF p > Len(priority_devices) THEN None
    ELSE IF \E i \in 1..Len(devices) : devices[i].device_type = priority_devices[p]
    THEN devices[CHOOSE i \in 1..Len(devices) :
                     /\ devices[i].device_type = priority_devices[p]
                     /\ \A k \in 1..(i - 1) : devices[k].device_type # priority_devices[p]]
    ELSE Recommended(devices, p + 1)

\* auto_detect_and_connect from the recommended device on
ConnectRecommended(s, e, portList, t, devices, recommended_device, oc) ==
    Only({ [m |-> r.m, tr |-> r.tr, calls |-> 1,
            ret |-> [detected_devices |-> devices,
                     recommended_device |-> recommended_device,
                     auto_connected |-> r.ret,
                     connection_info |->
                         [attempted_device |-> recommended_device.device,
                          baudrate |-> recommended_device.recommended_baudrate,
                          success |-> r.ret]]] :
             r \in { connect_to_device(s, e, portList, t, recommended_device.device,
                                       PyInt(recommended_device.recommended_baudrate),
                                       TRUE, oc) } })

\* auto_detect_and_connect from the device list on
DetectAmong(s, e, portList, t, devices, oc) ==
    IF devices = <<>>
    THEN [m |-> s.m, tr |-> s.tr, calls |-> 0,
          ret |-> [detected_devices |-> <<>>,
                   recommended_device |-> None,
                   auto_connected |-> FALSE,
                   connection_info |-> [error |-> "No USB devices found"]]]
    ELSE Only({ ConnectRecommended(s, e, portList, t, devices,
                                   IF best = None THEN devices[1] ELSE best, oc) :
                  best \in { Recommended(devices, 1) } })

\* USBMonitor.auto_detect_and_connect; calls counts the calls of
\* connect_to_device
auto_detect_and_connect(s, e, portList, t, oc) ==
    Only({ DetectAmong(s, e, portList, t, devices, oc) :
             devices \in { get_available_devices(s.m, e, portList, oc.comports) } })

(***************************************************************************)
(* HTTP handlers                                                           *)
(***************************************************************************)
\* POST /disconnect
disconnect_device(s) ==
    IF ~s.m.is_connected
    THEN [m |-> s.m, tr |-> s.tr,
          ret |-> [status_code |-> 200,
                   body |-> [message |-> "No device connected",
                             status |-> "disconnected"]]]
    ELSE Only({ [m |-> s1.m, tr |-> s1.tr,
                 ret |-> [status_code |-> 200,
                          body |-> [message |-> "Successfully disconnected from device",
                                    previous_device |-> s.m.device_info,
                                    status |-> "disconnected"]]] :
                  s1 \in { disconnect(s) } })

\* the payload of GET /data when there is nothing to return
NoDataAvailable(m) ==
    [message |-> "No data available",
     device_connected |-> TRUE,
     device_info |-> m.device_info]

\* a GET /data that does not fall back to the retained latest data
DataOrLatest_no_fallback(r) ==
    [m |-> r.m, tr |-> r.tr, transport_read |-> r.transport_read, data |-> r.ret,
     ret |-> [status_code |-> 200,
              body |-> IF r.ret # None THEN r.ret ELSE NoDataAvailable(r.m)]]

\* GET /data past the read: the data read, else the latest data, else the
\* informational payload; data is the handler's local of that name
DataOrLatest(r) ==
    [m |-> r.m, tr |-> r.tr, transport_read |-> r.transport_read, data |-> r.ret,
     ret |-> [status_code |-> 200,
              body |-> IF r.ret # None THEN r.ret
                       ELSE IF r.m.latest_data # None THEN r.m.latest_data
                       ELSE NoDataAvailable(r.m)]]

\* GET /data
get_usb_data(s, e, t, fmt, oc) ==
    IF ~s.m.is_connected
    THEN [m |-> s.m, tr |-> s.tr, transport_read |-> FALSE, data |-> None,
          ret |-> [status_code |-> 400,
                   detail |-> "No device connected. Use /auto-detect or /connect first."]]
    ELSE Only({ DataOrLatest(r) : r \in { read_data(s, e, t, fmt, oc) } })

\* GET /health
health_check(m, e) ==
    [status_code |-> 200,
     body |-> [status |-> "healthy",
               device_connected |-> m.is_connected,
               connected_device |-> IF m.is_connected THEN Get(m.device_info, "device")
                                    ELSE None,
               platform |-> e.system,
               total_connections |-> Len(m.connection_history)]]

\* GET /auto-detect
auto_detect_devices(s, e, portList, t, oc) ==
    Only({ [m |-> r.m, tr |-> r.tr, calls |-> r.calls,
            ret |-> [status_code |-> 200, body |-> r.ret]] :
             r \in { auto_detect_and_connect(s, e, portList, t, oc) } })

\* the except clause of choose_usb_device: it catches the HTTPException
\* raised inside the try as well and raises HTTPException(500) in its place
RaisedInTry(status_code, detail) ==
    [status_code |-> 500, detail |-> [status_code |-> status_code, detail |-> detail]]

\* POST /connect; request is a ConnectionRequest, its device_path None or
\* a str holding the path
choose_usb_device(s, e, portList, t, request, oc) ==
    IF request.auto_detect /\ request.device_path = None
    THEN Only({ [m |-> r.m, tr |-> r.tr, calls |-> r.calls,
                 ret |-> IF r.ret.auto_connected
                         THEN [status_code |-> 200,
                               body |-> [message |-> "Successfully auto-connected to device",
                                         device |-> r.m.device_info,
                                         status |-> "connected",
                                         auto_detected |-> TRUE,
                                         detection_result |-> r.ret]]
                         ELSE RaisedInTry(400, "Auto-detection failed")] :
                  r \in { auto_detect_and_connect(s, e, portList, t, oc) } })
    ELSE IF request.device_path = None
    THEN [m |-> s.m, tr |-> s.tr, calls |-> 0,
          ret |-> RaisedInTry(400, "Device path is required for manual connection")]
    ELSE Only({ [m |-> r.m, tr |-> r.tr, calls |-> 1,
                 ret |-> IF r.ret
                         THEN [status_code |-> 200,
                               body |-> [message |-> "Successfully connected to device",
                                         device |-> r.m.device_info,
                                         status |-> "connected",
                                         auto_detected |-> FALSE]]
                         ELSE RaisedInTry(400, "Failed to connect to device")] :
                  r \in { connect_to_device(s, e, portList, t, request.device_path.s,
                                            request.baudrate, request.baudrate = None,
                                            oc) } })

\* usb_monitor.device_info.get('device'), as a Python value
ConnectedPath(m) ==
    IF "device" \in DOMAIN m.device_info THEN PyStr(m.device_info.device) ELSE None

\* the first device of the list that is not marked connected, or 0
RECURSIVE FirstUnconnected(_, _)
FirstUnconnected(devices, i) ==
    IF i > Len(devices) THEN 0
    ELSE IF ~devices[i].is_connected THEN i
    ELSE FirstUnconnected(devices, i + 1)

\* handle_usb_inserted from the chosen device on
ConnectInserted(s, e, portList, t, best_device, oc) ==
    Only({ [m |-> r.m, tr |-> r.tr, calls |-> 1,
            ret |-> [status_code |-> 200,
                     body |-> IF r.ret
                              THEN [status |-> "connected",
                                    device |-> [path |-> best_device.device,
                                                description |-> best_device.description,
                                                manufacturer |-> best_device.manufacturer,
                                                vid |-> best_device.vid,
                                                pid |-> best_device.pid,
                                                baudrate |-> best_device.recommended_baudrate]]
                              ELSE [status |-> "connection_failed",
                                    device |-> best_device.device]]] :
             r \in { connect_to_device(s, e, portList, t, best_device.device,
                                       PyInt(best_device.recommended_baudrate), TRUE, oc) } })

\* handle_usb_inserted from the device list on
InsertedAmong(s, e, portList, t, devices, oc) ==
    IF devices = <<>>
    THEN [m |-> s.m, tr |-> s.tr, calls |-> 0,
          ret |-> [status_code |-> 200,
                   body |-> [status |-> "no_devices", devices_found |-> 0]]]
    ELSE IF FirstUnconnected(devices, 1) = 0
    THEN [m |-> s.m, tr |-> s.tr, calls |-> 0,
          ret |-> [status_code |-> 200,
                   body |-> [status |-> "all_connected", devices_found |-> Len(devices)]]]
    ELSE ConnectInserted(s, e, portList, t, devices[FirstUnconnected(devices, 1)], oc)

\* POST /usb-inserted
handle_usb_inserted(s, e, portList, t, oc) ==
    Only({ InsertedAmong(s, e, portList, t, devices, oc) :
             devices \in { get_available_devices(s.m, e, portList, oc.comports) } })

(***************************************************************************)
(* Inputs of the parse pipeline                                            *)
(***************************************************************************)
MaxLineLen == 3

MaxParseLen == 2

LineChars == { "{", "}", "[", "]", ",", ":", "=", QUOTE, "1", "c", " ", TAB, SOH, NUL }

SampleLines ==
    { <<"[", "1", ",", "1", "]">>,
      <<"{", QUOTE, "c", QUOTE, ":", "1", "}">>,
      <<"{", QUOTE, "c", QUOTE, ":", "1", ",", QUOTE, "f", QUOTE, ":", "2", "}">>,
      <<"c", "=", "1", ",", "f", "=", "2">>,
      <<"c", "=", "1", ";", "f", "=", "2">>,
      <<"c", ":", "1", ";", "f", ":", "2">>,
      <<"{", QUOTE, "c", QUOTE, ":", "[", "]", "}">>,
      <<"n", "u", "l", "l">>,
      <<"c", ",", "f", LF, "1", ",", "2">>,
      <<"h", "e", "l", "l", "o">>,
      <<"a", SOH, "b">>,
      <<"a", DEL, "b">>,
      <<"{", "c", ",", "1", "}">>,
      <<"x", "{", QUOTE, "v", QUOTE, ":", "0", "}">>,
      <<"{", QUOTE, "v", QUOTE, ":", QUOTE, "3", ".", "7", "V", QUOTE, "}">>,
      <<"{", QUOTE, "c", QUOTE, ":", QUOTE, "1", "-", "1", QUOTE, ",", QUOTE, "f", QUOTE, ":", QUOTE, "2", QUOTE, "}">>,
      <<" ", NUL, " ", "c", "=", "1", " ">>,
      <<"v", "o", "l", "t", "=", "3", ".", "7", ",", "a", "m", "p", "=", "1", ".", "2">>,
      <<"c", CR, "f", ",", "1">>,
      <<QUOTE, "c", ",", "f">>,
      <<"{", "c", ":", "1", ",", "f", ":", "2", "}">> }

SeqsUpTo(chars, n) == UNION { [1..k -> chars] : k \in 0..n }

FormatHints == { "auto", "json", "csv", "key_value", "binary", "text", "hex" }

Pending == [t |-> "pending"]

\* no worker process
DeployUnused == worker_monitor = <<>>

\* no request in the event loop
LoopUnused ==
    /\ pending = {}
    /\ active = {}

\* the monitor as constructed, with no operation on it
MonitorUnused ==
    /\ LoopUnused
    /\ DeployUnused
    /\ usb_monitor = NewMonitor
    /\ transport = NoTransport
    /\ env = [cloud |-> FALSE, system |-> "linux"]
    /\ ports = <<>>
    /\ now = 0
    /\ last = [op |-> "none"]

\* no line in the parse pipeline
PipelineUnused ==
    /\ raw_data = <<>>
    /\ data_format = "auto"
    /\ detected = "pending"
    /\ response = Pending
    /\ parsed_data = Pending
    /\ sensor_data = Pending

\* a direct call of the detector on a cleaned line
InitDetect ==
    /\ raw_data \in SeqsUpTo(LineChars, MaxLineLen) \cup SampleLines
    /\ data_format = "auto"
    /\ detected = "pending"
    /\ response = Pending
    /\ parsed_data = Pending
    /\ sensor_data = Pending
    /\ MonitorUnused

DetectFormat ==
    /\ detected = "pending"
    /\ CleanData(raw_data) # <<>>
    /\ detected' = _detect_data_format(CleanData(raw_data))
    /\ UNCHANGED <<raw_data, data_format, response, parsed_data, sensor_data>>
    /\ UNCHANGED <<monVars, loopVars, deployVars>>

NextDetect == DetectFormat

SpecDetect == InitDetect /\ [][NextDetect]_vars

\* one call of the parse pipeline on a line, with a format hint
InitParse ==
    /\ raw_data \in SeqsUpTo(LineChars, MaxParseLen) \cup SampleLines
    /\ data_format \in FormatHints
    /\ detected = "pending"
    /\ response = Pending
    /\ parsed_data = Pending
    /\ sensor_data = Pending
    /\ MonitorUnused

ParseUniversal ==
    /\ response = Pending
    /\ response' = parse_universal_data(raw_data, Len(raw_data), data_format, EmptyInfo)
    /\ UNCHANGED <<raw_data, data_format, detected, parsed_data, sensor_data>>
    /\ UNCHANGED <<monVars, loopVars, deployVars>>

NextParse == ParseUniversal

SpecParse == InitParse /\ [][NextParse]_vars

(***************************************************************************)
(* Inputs of the key-value parser                                          *)
(***************************************************************************)
MaxKvLen == 4

KvChars == { "=", ":", ",", ";", LF, CR, TAB, " ", "a", "b" }

KvSamples ==
    { <<"a", "=", "1", ",", "a", "=", "2">>,
      <<"a", ":", "b", "=", "c">>,
      <<"a", "=", "b", ":", "c">>,
      <<" ", "a", " ", ":", " ", "b", " ", ";", "b", ":", "a", ":", "b">>,
      <<"v", "o", "l", "t", "=", "3", ".", "7", ",", "a", "m", "p", "=", "1", ".", "2">>,
      <<"v", "o", "l", "t", ":", "3", ".", "7", ",", "a", "m", "p", ":", "1", ".", "2">> }

\* one call of the key-value parser on a line
InitKv ==
    /\ raw_data \in SeqsUpTo(KvChars, MaxKvLen) \cup KvSamples
    /\ data_format = "key_value"
    /\ detected = "pending"
    /\ response = Pending
    /\ parsed_data = Pending
    /\ sensor_data = Pending
    /\ MonitorUnused

ParseKeyValue ==
    /\ parsed_data = Pending
    /\ parsed_data' = _parse_key_value_data(raw_data)
    /\ UNCHANGED <<raw_data, data_format, detected, response, sensor_data>>
    /\ UNCHANGED <<monVars, loopVars, deployVars>>

NextKv == ParseKeyValue

SpecKv == InitKv /\ [][NextKv]_vars

(***************************************************************************)
(* Inputs of the sensor normaliser                                         *)
(***************************************************************************)
MaxValLen == 4

ValueChars == { "1", ".", "-", "V" }

NormValues ==
    { PyStr(s) : s \in SeqsUpTo(ValueChars, MaxValLen) }
        \cup { PyInt(0), PyInt(25), PyFloat(37, 1) }

\* values of a second field: convertible text, text that float() rejects,
\* text without numeric residue, a number
SecondValues == { PyStr(<<"2">>), PyStr(<<"-">>), PyStr(<<"V">>), PyInt(7) }

NormKeys ==
    { <<"t", "e", "m", "p">>,
      <<"t", "e", "m", "p", "e", "r", "a", "t", "u", "r", "e">>,
      <<"v">> }

\* one call of the normaliser on a parsed mapping of one or two fields
InitNorm ==
    /\ raw_data = <<>>
    /\ data_format = "auto"
    /\ detected = "pending"
    /\ response = Pending
    /\ \E k1 \in NormKeys, v1 \in NormValues :
          \/ parsed_data = PyDict(k1 :> v1)
          \/ \E k2 \in NormKeys \ {k1}, v2 \in SecondValues :
                parsed_data = PyDict((k1 :> v1) @@ (k2 :> v2))
    /\ sensor_data = Pending
    /\ MonitorUnused

ExtractSensorData ==
    /\ sensor_data = Pending
    /\ sensor_data' = _extract_sensor_data(parsed_data)
    /\ UNCHANGED <<raw_data, data_format, detected, response, parsed_data>>
    /\ UNCHANGED <<monVars, loopVars, deployVars>>

NextNorm == ExtractSensorData

SpecNorm == InitNorm /\ [][NextNorm]_vars

(***************************************************************************)
(* The monitor under any sequence of operations                            *)
(***************************************************************************)
MaxClock == 2

MaxProbe == 1

Envs ==
    { [cloud |-> TRUE, system |-> "linux"],
      [cloud |-> FALSE, system |-> "linux"],
      [cloud |-> FALSE, system |-> "windows"] }

\* the device paths requests name
DevicePaths == { <<"/dev/", "ttyUSB", "0">>, <<"ttyACM", "0">> }

\* a port as serial.tools.list_ports reports it
Port(device, description, manufacturer) ==
    [device |-> device, description |-> description, manufacturer |-> manufacturer,
     vid |-> 1027, pid |-> 24577, serial_number |-> "A1", location |-> "1-1",
     hwid |-> "USB VID:PID=0403:6001"]

\* the ports of the host: the first device is listed, the second is not
PortList(system) ==
    << Port(_normalize_device_path(system, <<"/dev/", "ttyUSB", "0">>),
            PyStr(<<"U", "S", "B", " ", "S", "e", "r", "i", "a", "l">>),
            PyStr(<<"F", "T", "D", "I">>)) >>

BaudArgs == { None, PyInt(9600) }

\* what serial.Serial and the metadata lookup do with the three strategies
StrategyOutcomes ==
    { <<"fail", "fail", "fail">>,
      <<"raise", "fail", "raise">>,
      <<"open", "fail", "fail">>,
      <<"fail", "raise", "open">> }

\* what the collaborators may do during one connect: nothing is asked of
\* them in cloud mode, and the probe runs only when the baud rate is to be
\* detected
ConnectOutcomes(e, baudrate, auto_detect_baudrate) ==
    IF CloudMode(e)
    THEN { [normalize |-> "ok", probe |-> 0, strategy |-> <<"fail", "fail", "fail">>] }
    ELSE { [normalize |-> "raise", probe |-> 0, strategy |-> <<"fail", "fail", "fail">>] }
             \cup { [normalize |-> "ok", probe |-> pr, strategy |-> st] :
                      pr \in IF baudrate = None \/ auto_detect_baudrate
                             THEN 0..MaxProbe ELSE { 0 },
                      st \in StrategyOutcomes }

\* the lines the transport delivers: nothing, a key-value line, a JSON
\* array
ReadLines ==
    { <<>>,
      <<"c", "=", "1", LF>>,
      <<"[", "1", ",", "1", "]", LF>> }

\* what the transport and the random source do during one read
ReadOutcomes(e) ==
    IF CloudMode(e)
    THEN { [kind |-> "data", line |-> <<>>, cloud |-> r] : r \in CloudReadings }
    ELSE LET r == CHOOSE c \in CloudReadings : TRUE
         IN  { [kind |-> "raise", line |-> <<>>, cloud |-> r] }
                 \cup { [kind |-> "data", line |-> l, cloud |-> r] : l \in ReadLines }

ReadFormats == { "auto" }

InitMonitor ==
    /\ PipelineUnused
    /\ LoopUnused
    /\ DeployUnused
    /\ usb_monitor = NewMonitor
    /\ transport = NoTransport
    /\ env \in Envs
    /\ ports = PortList(env.system)
    /\ now = 0
    /\ last = [op |-> "none"]

\* the state an operation starts from: the peak of open transports is
\* counted anew in every operation
Before == [m |-> usb_monitor, tr |-> [transport EXCEPT !.peak = transport.open]]

\* a call of usb_monitor.connect_to_device
Connect ==
    /\ now < MaxClock
    /\ \E device_path \in DevicePaths, baudrate \in BaudArgs,
          auto_detect_baudrate \in BOOLEAN :
          \E oc \in ConnectOutcomes(env, baudrate, auto_detect_baudrate) :
          \E r \in { connect_to_device(Before, env, ports, now + 1, device_path, baudrate,
                                       auto_detect_baudrate, oc) } :
              /\ usb_monitor' = r.m
              /\ transport' = r.tr
              /\ last' = [op |-> "connect_to_device", ret |-> r.ret,
                          device_path |-> device_path,
                          was_connected |-> usb_monitor.is_connected,
                          was_open |-> transport.open]
    /\ now' = now + 1
    /\ UNCHANGED <<env, ports>>
    /\ UNCHANGED <<pureVars, loopVars, deployVars>>

\* a call of usb_monitor.disconnect
Disconnect ==
    /\ \E r \in { disconnect(Before) } :
           /\ usb_monitor' = r.m
           /\ transport' = r.tr
           /\ last' = [op |-> "disconnect"]
    /\ UNCHANGED <<env, ports, now>>
    /\ UNCHANGED <<pureVars, loopVars, deployVars>>

\* a call of usb_monitor.read_data
ReadData ==
    /\ \E fmt \in ReadFormats, oc \in ReadOutcomes(env) :
          \E r \in { read_data(Before, env, now, fmt, oc) } :
              /\ usb_monitor' = r.m
              /\ transport' = r.tr
              /\ last' = [op |-> "read_data", ret |-> r.ret,
                          transport_read |-> r.transport_read]
    /\ UNCHANGED <<env, ports, now>>
    /\ UNCHANGED <<pureVars, loopVars, deployVars>>

\* a request POST /disconnect
PostDisconnect ==
    /\ \E r \in { disconnect_device(Before) } :
           /\ usb_monitor' = r.m
           /\ transport' = r.tr
           /\ last' = [op |-> "POST /disconnect", ret |-> r.ret]
    /\ UNCHANGED <<env, ports, now>>
    /\ UNCHANGED <<pureVars, loopVars, deployVars>>

\* a request GET /data
GetData ==
    /\ \E fmt \in ReadFormats, oc \in ReadOutcomes(env) :
          \E r \in { get_usb_data(Before, env, now, fmt, oc) } :
              /\ usb_monitor' = r.m
              /\ transport' = r.tr
              /\ last' = [op |-> "GET /data", ret |-> r.ret, data |-> r.data,
                          transport_read |-> r.transport_read]
    /\ UNCHANGED <<env, ports, now>>
    /\ UNCHANGED <<pureVars, loopVars, deployVars>>

Next ==
    \/ Connect
    \/ Disconnect
    \/ ReadData
    \/ PostDisconnect
    \/ GetData

Spec == InitMonitor /\ [][Next]_vars

(***************************************************************************)
(* The service under any sequence of requests                              *)
(***************************************************************************)
\* the bodies of POST /connect
Requests ==
    { [device_path |-> dp, baudrate |-> b, auto_detect |-> a] :
        dp \in { None } \cup { PyStr(path) : path \in DevicePaths },
        b \in BaudArgs, a \in BOOLEAN }

\* the ports of the host: none, the first device, or the first device and
\* an Arduino
ApiPortLists(system) ==
    { <<>>,
      PortList(system),
      PortList(system) \o
          << Port(_normalize_device_path(system, <<"ttyACM", "0">>),
                  PyStr(<<"A", "r", "d", "u", "i", "n", "o", " ", "U", "n", "o">>),
                  None) >> }

\* what the collaborators may do during one request: the enumeration
\* raises or not; every strategy fails to open, the first opens, or the
\* first and the last open and the metadata lookup raises
ApiOutcomes(e) ==
    IF CloudMode(e)
    THEN { [comports |-> "ok", normalize |-> "ok", probe |-> 0,
            strategy |-> <<"fail", "fail", "fail">>] }
    ELSE { [comports |-> c, normalize |-> "ok", probe |-> 0, strategy |-> st] :
             c \in { "ok", "raise" },
             st \in { <<"fail", "fail", "fail">>, <<"open", "fail", "fail">>,
                      <<"raise", "fail", "raise">> } }

\* the service runs in simulated-device mode or on a Linux host
ApiEnvs == { e \in Envs : e.system = "linux" }

InitApi ==
    /\ PipelineUnused
    /\ LoopUnused
    /\ DeployUnused
    /\ usb_monitor = NewMonitor
    /\ transport = NoTransport
    /\ env \in ApiEnvs
    /\ ports \in IF CloudMode(env) THEN { <<>> } ELSE ApiPortLists(env.system)
    /\ now = 0
    /\ last = [op |-> "none"]

\* a request POST /connect
PostConnect ==
    /\ now < MaxClock
    /\ \E request \in Requests, oc \in ApiOutcomes(env) :
          \E r \in { choose_usb_device(Before, env, ports, now + 1, request, oc) } :
              /\ usb_monitor' = r.m
              /\ transport' = r.tr
              /\ now' = now + r.calls
              /\ last' = [op |-> "POST /connect", ret |-> r.ret, calls |-> r.calls,
                          request |-> request]
    /\ UNCHANGED <<env, ports>>
    /\ UNCHANGED <<pureVars, loopVars, deployVars>>

\* a request GET /auto-detect
GetAutoDetect ==
    /\ now < MaxClock
    /\ \E oc \in ApiOutcomes(env) :
          \E r \in { auto_detect_devices(Before, env, ports, now + 1, oc) } :
              /\ usb_monitor' = r.m
              /\ transport' = r.tr
              /\ now' = now + r.calls
              /\ last' = [op |-> "GET /auto-detect", ret |-> r.ret, calls |-> r.calls]
    /\ UNCHANGED <<env, ports>>
    /\ UNCHANGED <<pureVars, loopVars, deployVars>>

\* a request POST /usb-inserted
PostUsbInserted ==
    /\ now < MaxClock
    /\ \E oc \in ApiOutcomes(env) :
          \E r \in { handle_usb_inserted(Before, env, ports, now + 1, oc) } :
              /\ usb_monitor' = r.m
              /\ transport' = r.tr
              /\ now' = now + r.calls
              /\ last' = [op |-> "POST /usb-inserted", ret |-> r.ret, calls |-> r.calls,
                          oc |-> oc,
                          before |-> [is_connected |-> usb_monitor.is_connected,
                                      device |-> ConnectedPath(usb_monitor)]]
    /\ UNCHANGED <<env, ports>>
    /\ UNCHANGED <<pureVars, loopVars, deployVars>>

NextApi ==
    \/ PostConnect
    \/ GetAutoDetect
    \/ PostUsbInserted
    \/ PostDisconnect
    \/ GetData

SpecApi == InitApi /\ [][NextApi]_vars

(***************************************************************************)
(* Inputs of auto-detection                                                *)
(***************************************************************************)
MaxPorts == 2

\* descriptions and manufacturers of ports, one or two for each device type
PortKinds ==
    { [description |-> PyStr(<<"U", "S", "B", " ", "S", "e", "r", "i", "a", "l">>),
       manufacturer |-> PyStr(<<"A", "r", "d", "u", "i", "n", "o", " ", "L", "L", "C">>)],
      [description |-> PyStr(<<"g", "p", "s">>),
       manufacturer |-> PyStr(<<"A", "d", "a", "f", "r", "u", "i", "t">>)],
      [description |-> None,
       manufacturer |-> PyStr(<<"E", "s", "p", "r", "e", "s", "s", "i", "f">>)],
      [description |-> PyStr(<<"P", "i", "c", "o">>),
       manufacturer |-> PyStr(<<"R", "a", "s", "p", "b", "e", "r", "r", "y", " ", "P", "i">>)],
      [description |-> PyStr(<<"T", "e", "m", "p", " ", "P", "r", "o", "b", "e">>),
       manufacturer |-> PyStr(<<"F", "T", "D", "I">>)],
      [description |-> PyStr(<<"G", "P", "S", " ", "R", "e", "c", "e", "i", "v", "e", "r">>),
       manufacturer |-> None],
      [description |-> PyStr(<<"U", "S", "B", " ", "S", "e", "r", "i", "a", "l">>),
       manufacturer |-> PyStr(<<"F", "T", "D", "I">>)] }

\* the port lists of up to MaxPorts ports, the port at position i being
\* ttyUSB<i-1>
AutoPortLists(system) ==
    UNION { { [i \in 1..n |->
                 Port(_normalize_device_path(system, <<"ttyUSB", Digits[i]>>),
                      kinds[i].description, kinds[i].manufacturer)] :
              kinds \in [1..n -> PortKinds] } : n \in 0..MaxPorts }

\* what the collaborators may do during one auto-detection
AutoOutcomes(e) ==
    { [comports |-> c, normalize |-> oc.normalize, probe |-> oc.probe,
       strategy |-> oc.strategy] :
        c \in IF CloudMode(e) THEN { "ok" } ELSE { "ok", "raise" },
        oc \in ConnectOutcomes(e, None, TRUE) }

InitAuto ==
    /\ PipelineUnused
    /\ LoopUnused
    /\ DeployUnused
    /\ usb_monitor = NewMonitor
    /\ transport = NoTransport
    /\ env \in Envs
    /\ ports \in IF CloudMode(env) THEN { <<>> } ELSE AutoPortLists(env.system)
    /\ now = 0
    /\ last = [op |-> "none"]

\* a call of usb_monitor.auto_detect_and_connect on the new monitor
AutoDetect ==
    /\ last.op = "none"
    /\ \E oc \in AutoOutcomes(env) :
          \E r \in { auto_detect_and_connect(Before, env, ports, now + 1, oc) } :
              /\ usb_monitor' = r.m
              /\ transport' = r.tr
              /\ now' = now + r.calls
              /\ last' = [op |-> "auto_detect_and_connect", ret |-> r.ret,
                          calls |-> r.calls, oc |-> oc]
    /\ UNCHANGED <<env, ports>>
    /\ UNCHANGED <<pureVars, loopVars, deployVars>>

NextAuto == AutoDetect

SpecAuto == InitAuto /\ [][NextAuto]_vars

(***************************************************************************)
(* The event loop of one service process                                   *)
(*                                                                         *)
(* Requests arrive at any time.  Every handler is a coroutine function     *)
(* (async def) whose body holds no await: the event loop begins a handler  *)
(* only when no handler is running, and a handler that has begun runs to   *)
(* its return.                                                             *)
(***************************************************************************)
RequestKinds == { "POST /connect", "POST /disconnect", "GET /data" }

\* the body of the POST /connect requests
LoopRequest ==
    [device_path |-> PyStr(<<"/dev/", "ttyUSB", "0">>), baudrate |-> None,
     auto_detect |-> FALSE]

\* what the collaborators may do during one request: every strategy fails
\* to open, or the first opens
LoopOutcomes(e) ==
    { oc \in ApiOutcomes(e) :
        oc.comports = "ok" /\ oc.strategy[1] \in { "fail", "open" } }

\* a handler that is a plain function runs in a thread of the pool, next to
\* the handlers that are running
LoopIdle_thread_pool == TRUE

\* the event loop can begin a handler: no coroutine is running
LoopIdle == active = {}

InitLoop ==
    /\ PipelineUnused
    /\ LoopUnused
    /\ DeployUnused
    /\ usb_monitor = NewMonitor
    /\ transport = NoTransport
    /\ env \in ApiEnvs
    /\ ports = PortList(env.system)
    /\ now = 0
    /\ last = [op |-> "none"]

\* a request arrives
Arrive ==
    /\ \E k \in RequestKinds \ (pending \cup active) :
          /\ k = "POST /connect" => now < MaxClock
          /\ pending' = pending \cup { k }
    /\ UNCHANGED <<active, pureVars, monVars, deployVars>>

\* the event loop begins the handler of a request
Dispatch ==
    /\ LoopIdle
    /\ \E k \in pending :
          /\ pending' = pending \ { k }
          /\ active' = active \cup { k }
    /\ UNCHANGED <<pureVars, monVars, deployVars>>

\* the handler of POST /connect runs and returns
RunConnect ==
    /\ "POST /connect" \in active
    /\ \E oc \in LoopOutcomes(env) :
          \E r \in { choose_usb_device(Before, env, ports, now + 1, LoopRequest, oc) } :
              /\ usb_monitor' = r.m
              /\ transport' = r.tr
              /\ now' = now + r.calls
              /\ last' = [op |-> "POST /connect", ret |-> r.ret, calls |-> r.calls,
                          request |-> LoopRequest]
    /\ active' = active \ { "POST /connect" }
    /\ UNCHANGED <<env, ports, pending, pureVars, deployVars>>

\* the handler of POST /disconnect runs and returns
RunDisconnect ==
    /\ "POST /disconnect" \in active
    /\ \E r \in { disconnect_device(Before) } :
           /\ usb_monitor' = r.m
           /\ transport' = r.tr
           /\ last' = [op |-> "POST /disconnect", ret |-> r.ret]
    /\ active' = active \ { "POST /disconnect" }
    /\ UNCHANGED <<env, ports, now, pending, pureVars, deployVars>>

\* the handler of GET /data runs and returns
RunGetData ==
    /\ "GET /data" \in active
    /\ \E fmt \in ReadFormats, oc \in ReadOutcomes(env) :
          \E r \in { get_usb_data(Before, env, now, fmt, oc) } :
              /\ usb_monitor' = r.m
              /\ transport' = r.tr
              /\ last' = [op |-> "GET /data", ret |-> r.ret, data |-> r.data,
                          transport_read |-> r.transport_read]
    /\ active' = active \ { "GET /data" }
    /\ UNCHANGED <<env, ports, now, pending, pureVars, deployVars>>

NextLoop ==
    \/ Arrive
    \/ Dispatch
    \/ RunConnect
    \/ RunDisconnect
    \/ RunGetData

SpecLoop == InitLoop /\ [][NextLoop]_vars

(***************************************************************************)
(* The service under the deployment launcher                               *)
(*                                                                         *)
(* start_server.py runs gunicorn with 'workers' worker processes of class  *)
(* UvicornWorker and the application 'usb_api:app'.  Every worker process   *)
(* imports usb_api and so constructs a usb_monitor of its own; a request    *)
(* is served by the worker that accepts its connection, which may be any    *)
(* of them.  Inside one worker a handler runs to its return.  The           *)
(* variables usb_monitor and transport, the module's state in a service     *)
(* of one process, are not used here.                                       *)
(***************************************************************************)
\* self.cfg.set('workers', 4)
workers == 4

\* the state of worker w before a request
BeforeAt(w) ==
    [m |-> worker_monitor[w].m,
     tr |-> [worker_monitor[w].tr EXCEPT !.peak = worker_monitor[w].tr.open]]

InitWorkers ==
    /\ PipelineUnused
    /\ LoopUnused
    /\ worker_monitor = [w \in 1..workers |-> [m |-> NewMonitor, tr |-> NoTransport]]
    /\ usb_monitor = NewMonitor
    /\ transport = NoTransport
    /\ env \in ApiEnvs
    /\ ports = PortList(env.system)
    /\ now = 0
    /\ last = [op |-> "none"]

\* a request POST /connect, served by worker w
WorkerPostConnect ==
    /\ now < MaxClock
    /\ \E w \in 1..workers, oc \in LoopOutcomes(env) :
          \E r \in { choose_usb_device(BeforeAt(w), env, ports, now + 1, LoopRequest, oc) } :
              /\ worker_monitor' = [worker_monitor EXCEPT ![w] = [m |-> r.m, tr |-> r.tr]]
              /\ now' = now + r.calls
              /\ last' = [op |-> "POST /connect", worker |-> w, ret |-> r.ret]
    /\ UNCHANGED <<usb_monitor, transport, env, ports>>
    /\ UNCHANGED <<pureVars, loopVars>>

\* a request POST /disconnect, served by worker w
WorkerPostDisconnect ==
    /\ \E w \in 1..workers :
          \E r \in { disconnect_device(BeforeAt(w)) } :
              /\ worker_monitor' = [worker_monitor EXCEPT ![w] = [m |-> r.m, tr |-> r.tr]]
              /\ last' = [op |-> "POST /disconnect", worker |-> w, ret |-> r.ret]
    /\ UNCHANGED <<usb_monitor, transport, env, ports, now>>
    /\ UNCHANGED <<pureVars, loopVars>>

\* a request GET /data, served by worker w
WorkerGetData ==
    /\ \E w \in 1..workers, fmt \in ReadFormats, oc \in ReadOutcomes(env) :
          \E r \in { get_usb_data(BeforeAt(w), env, now, fmt, oc) } :
              /\ worker_monitor' = [worker_monitor EXCEPT ![w] = [m |-> r.m, tr |-> r.tr]]
              /\ last' = [op |-> "GET /data", worker |-> w, ret |-> r.ret]
    /\ UNCHANGED <<usb_monitor, transport, env, ports, now>>
    /\ UNCHANGED <<pureVars, loopVars>>

\* a request GET /health, served by worker w
WorkerGetHealth ==
    /\ \E w \in 1..workers :
          last' = [op |-> "GET /health", worker |-> w,
                   ret |-> health_check(worker_monitor[w].m, env)]
    /\ UNCHANGED <<worker_monitor, usb_monitor, transport, env, ports, now>>
    /\ UNCHANGED <<pureVars, loopVars>>

NextWorkers ==
    \/ WorkerPostConnect
    \/ WorkerPostDisconnect
    \/ WorkerGetData
    \/ WorkerGetHealth

SpecWorkers == InitWorkers /\ [][NextWorkers]_vars

(***************************************************************************)
(* Claims                                                                  *)
(***************************************************************************)
IsBracketed(d) ==
    \/ d[1] = "{" /\ d[Len(d)] = "}"
    \/ d[1] = "[" /\ d[Len(d)] = "]"

\* C1: for every non-empty cleaned line the detector returns exactly one of
\* json, csv, key_value, binary, text, chosen by first match: json if the
\* line is bracket-delimited and decodes as JSON; else csv if it contains a
\* comma; else key_value if it contains '=' or ':'; else binary if a
\* character other than newline, carriage return, tab lies outside [32,126];
\* else text.
C1_DetectorFirstMatch ==
    detected # "pending" =>
        LET d == CleanData(raw_data)
            isJson == IsBracketed(d) /\ json_loads(d).ok
            hasComma == \E i \in 1..Len(d) : d[i] = ","
            hasKv == \E i \in 1..Len(d) : d[i] \in { "=", ":" }
            isBinary == \E i \in 1..Len(d) :
                            /\ d[i] \notin { LF, CR, TAB }
                            /\ Ord(d[i]) \notin 32..126
        IN  /\ detected \in FormatTags
            /\ (detected = "json") <=> isJson
            /\ (detected = "csv") <=> (~isJson /\ hasComma)
            /\ (detected = "key_value") <=> (~isJson /\ ~hasComma /\ hasKv)
            /\ (detected = "binary") <=> (~isJson /\ ~hasComma /\ ~hasKv /\ isBinary)
            /\ (detected = "text") <=> (~isJson /\ ~hasComma /\ ~hasKv /\ ~isBinary)

\* a valid JSON object that contains commas has been classified json
C1_Witness ==
    /\ detected = "json"
    /\ StartsWith(CleanData(raw_data), "{")
    /\ "," \in Range(CleanData(raw_data))

\* the aliases of kind k that are keys of the mapping d, as positions in
\* the kind's priority list
PresentAliases(d, k) ==
    { i \in 1..Len(field_mappings(k)) : field_mappings(k)[i] \in DOMAIN d }

Min(S) == CHOOSE x \in S : \A y \in S : x <= y

\* the value the normaliser's coercion rule gives a matched value: a number
\* stays, a text becomes the number written by its residue of digits,
\* points and minus signs, and stays as it is when that is no number
CoercedValue(value) ==
    IF value.t # "str" THEN value
    ELSE LET residue == SelectSeq(value.s, LAMBDA c : c \in Range(Digits) \cup { ".", "-" })
         IN  IF residue # <<>> /\ ToFloat(residue).ok THEN ToFloat(residue).v ELSE value

\* C2 (as claimed): for each canonical kind the first alias, in priority
\* order, that is a key of the mapping determines the kind's value, whatever
\* that value is; a later alias never overwrites it.
C2_FirstAliasWins ==
    sensor_data # Pending =>
        /\ sensor_data.ok
        /\ \A k \in SensorKinds :
              LET present == PresentAliases(parsed_data.d, k)
              IN  present # {} =>
                    /\ k \in DOMAIN sensor_data.v
                    /\ sensor_data.v[k] =
                         CoercedValue(parsed_data.d[field_mappings(k)[Min(present)]])

\* the residue the claim describes: a minus sign is kept only when it leads
\* the residue
RECURSIVE LeadingMinusResidue(_, _, _)
LeadingMinusResidue(s, i, acc) ==
    IF i > Len(s) THEN acc
    ELSE IF IsDigit(s[i]) \/ s[i] = "." \/ (s[i] = "-" /\ acc = <<>>)
    THEN LeadingMinusResidue(s, i + 1, Append(acc, s[i]))
    ELSE LeadingMinusResidue(s, i + 1, acc)

LeadingMinusValue(value) ==
    IF value.t # "str" THEN value
    ELSE LET residue == LeadingMinusResidue(value.s, 1, <<>>)
         IN  IF residue # <<>> /\ ToFloat(residue).ok THEN ToFloat(residue).v ELSE value

\* C3 (as claimed): a matched numeric value is copied as-is; a matched text
\* value has every character removed that is not a digit, a decimal point or
\* a leading minus sign and the residue is converted to a number, the
\* original text being kept when the residue is empty or no number.
C3_LeadingMinusOnly ==
    (sensor_data # Pending /\ Cardinality(DOMAIN parsed_data.d) = 1) =>
        /\ sensor_data.ok
        /\ \A k \in SensorKinds :
              \A i \in PresentAliases(parsed_data.d, k) :
                 /\ k \in DOMAIN sensor_data.v
                 /\ sensor_data.v[k] = LeadingMinusValue(parsed_data.d[field_mappings(k)[i]])

\* C3 (amended): the normaliser never fails; a kind is in the record exactly
\* when one of its aliases is a key of the mapping, and its value is the
\* coercion of a matched value: a number copied as-is, a text replaced by
\* the number its residue of digits, decimal points and minus signs (in any
\* position) writes, or kept unmodified when the residue is empty or is not
\* a valid number.
C3_Coercion ==
    sensor_data # Pending =>
        /\ sensor_data.ok
        /\ \A k \in SensorKinds :
              LET present == PresentAliases(parsed_data.d, k)
              IN  /\ (k \in DOMAIN sensor_data.v) <=> (present # {})
                  /\ present # {} =>
                        /\ sensor_data.v[k] \in
                             { CoercedValue(parsed_data.d[field_mappings(k)[i]]) :
                                 i \in present }
                        /\ Cardinality(present) = 1 =>
                             sensor_data.v[k] =
                               CoercedValue(parsed_data.d[field_mappings(k)[Min(present)]])

\* a text with a unit suffix and an inner minus sign has been normalised:
\* its residue "1-1" is no number, so the text is kept
C3_Witness ==
    /\ sensor_data # Pending
    /\ DOMAIN parsed_data.d = { <<"v">> }
    /\ parsed_data.d[<<"v">>] = PyStr(<<"1", "-", "1", "V">>)
    /\ sensor_data.v["voltage"] = PyStr(<<"1", "-", "1", "V">>)

\* C4 (as claimed): for every non-empty cleaned line and every format the
\* parse pipeline returns a Data Response whose raw text is the cleaned
\* line, with null formatted data when the selected parser yields no usable
\* structured mapping (also for JSON that decodes to a non-object).
C4_NeverDropsLine ==
    (response # Pending /\ CleanData(raw_data) # <<>>) =>
        /\ response # None
        /\ response.raw_data = CleanData(raw_data)
        /\ LET fmt == IF data_format = "auto"
                      THEN _detect_data_format(CleanData(raw_data))
                      ELSE data_format
               parsed == ParseAs(fmt, CleanData(raw_data))
           IN  parsed.t # "dict" => response.formatted_data = None

\* the maximal runs of non-separator characters of the line d, as <<i, j>>
KvTokens(d) ==
    { t \in (1..Len(d)) \X (1..Len(d)) :
        /\ t[1] <= t[2]
        /\ \A p \in t[1]..t[2] : d[p] \notin { ",", ";", LF, CR, TAB }
        /\ t[1] = 1 \/ d[t[1] - 1] \in { ",", ";", LF, CR, TAB }
        /\ t[2] = Len(d) \/ d[t[2] + 1] \in { ",", ";", LF, CR, TAB } }

\* where the token t of d is split: its first '=', else its first ':', else 0
KvSplitAt(d, t) ==
    LET eq == { p \in t[1]..t[2] : d[p] = "=" }
        co == { p \in t[1]..t[2] : d[p] = ":" }
    IN  IF eq # {} THEN Min(eq) ELSE IF co # {} THEN Min(co) ELSE 0

KvKey(d, t) == Strip(SubSeq(d, t[1], KvSplitAt(d, t) - 1))

KvValue(d, t) == Strip(SubSeq(d, KvSplitAt(d, t) + 1, t[2]))

\* the line d with the first ':' of every token replaced by '='
ColonsToEquals(d) ==
    [p \in 1..Len(d) |->
        IF \E t \in KvTokens(d) : KvSplitAt(d, t) = p THEN "=" ELSE d[p]]

\* C5: the key-value parser splits the line on runs of ',', ';', newline,
\* carriage return, tab; a token with '=' is split at its first '=', else a
\* token with ':' at its first ':'; key and value are trimmed; a later token
\* replaces an earlier one with the same key; tokens with neither are
\* ignored; an empty mapping is no result; a line that uses only ':' gives
\* the same mapping as the same line with '=' as the separator.
C5_KeyValueParser ==
    parsed_data # Pending =>
        LET d == raw_data
            split == { t \in KvTokens(d) : KvSplitAt(d, t) # 0 }
        IN  /\ (parsed_data = None) <=> (split = {})
            /\ split # {} =>
                 /\ parsed_data.t = "dict"
                 /\ DOMAIN parsed_data.d = { KvKey(d, t) : t \in split }
                 /\ \A t \in split :
                       (\A u \in split : KvKey(d, u) = KvKey(d, t) => u[1] <= t[1])
                          => parsed_data.d[KvKey(d, t)] = PyStr(KvValue(d, t))
            /\ "=" \notin Range(d) => _parse_key_value_data(ColonsToEquals(d)) = parsed_data

\* a token with both separators has been split at its '=' and a repeated
\* key has taken its later value
C5_Witness ==
    /\ parsed_data # Pending
    /\ parsed_data # None
    /\ \/ /\ raw_data = <<"a", ":", "b", "=", "c">>
          /\ parsed_data.d[<<"a", ":", "b">>] = PyStr(<<"c">>)
       \/ /\ raw_data = <<"a", "=", "1", ",", "a", "=", "2">>
          /\ parsed_data.d[<<"a">>] = PyStr(<<"2">>)

\* C6: whenever connect_to_device returns False, whatever the transport and
\* the port enumeration did, the connected flag is false and no transport
\* is left open.
C6_FailedConnectDisconnected ==
    (last.op = "connect_to_device" /\ last.ret = FALSE)
        => (~usb_monitor.is_connected /\ transport.open = 0)

\* C7: after disconnect(), in real or in simulated-device mode, the
\* connected flag is false and the device metadata is empty, and
\* POST /disconnect answers status "disconnected" only with the flag false.
C7_DisconnectDisconnects ==
    /\ last.op = "disconnect"
           => (~usb_monitor.is_connected /\ usb_monitor.device_info = EmptyInfo)
    /\ (last.op = "POST /disconnect" /\ last.ret.body.status = "disconnected")
           => ~usb_monitor.is_connected

\* the device a connect of this path ends on
ConnectedDevice(device_path) ==
    IF CloudMode(env) THEN device_path
    ELSE _normalize_device_path(env.system, device_path)

\* the time the metadata says the connection was made
MetadataTime(device_info) ==
    IF CloudMode(env) THEN device_info.timestamp ELSE device_info.connection_time

\* C8: a connect issued while connected disconnects first: never are two
\* transports open at once, during an operation or between operations, and
\* a connect that succeeds ends connected with the metadata of the device
\* and the time of this call, on the one transport this call opened.
C8_ImplicitDisconnect ==
    /\ transport.peak <= 1
    /\ transport.open <= 1
    /\ (last.op = "connect_to_device" /\ last.ret = TRUE)
           => /\ usb_monitor.is_connected
              /\ usb_monitor.device_info.device = ConnectedDevice(last.device_path)
              /\ MetadataTime(usb_monitor.device_info) = now
              /\ ~CloudMode(env)
                     => /\ transport.open = 1
                        /\ usb_monitor.serial_connection.is_open
                        /\ usb_monitor.serial_connection.port
                               = ConnectedDevice(last.device_path)

\* a connect that succeeded on a second device while the transport to the
\* first was open
C8_Witness ==
    /\ last.op = "connect_to_device"
    /\ last.ret = TRUE
    /\ last.was_connected
    /\ last.was_open = 1
    /\ transport.open = 1
    /\ Len(usb_monitor.connection_history) = 2
    /\ usb_monitor.connection_history[1].success
    /\ usb_monitor.connection_history[1].device # usb_monitor.device_info.device

\* C9: read_data called with the connected flag false returns None, reads
\* nothing from the transport and changes neither the monitor nor the
\* transport; the transport is read only in steps that start with the flag
\* true.
C9_ReadWhileDisconnected ==
    [][ /\ (last'.op = "read_data" /\ ~usb_monitor.is_connected)
            => /\ last'.ret = None
               /\ ~last'.transport_read
               /\ usb_monitor' = usb_monitor
               /\ transport'.open = transport.open
        /\ (last'.op \in { "read_data", "GET /data" } /\ last'.transport_read)
            => usb_monitor.is_connected ]_vars

\* a read after a connection was made and closed again
C9_Witness ==
    /\ last.op = "read_data"
    /\ ~usb_monitor.is_connected
    /\ usb_monitor.serial_connection # None
    /\ usb_monitor.connection_history # <<>>
    /\ last.ret = None
    /\ ~last.transport_read

\* C10: GET /data on an open connection never answers with a data response
\* produced on an earlier connection: a data response in the answer carries
\* the metadata of the connection that is open.
C10_LatestClearedOnDisconnect ==
    (/\ last.op = "GET /data"
     /\ last.ret.status_code = 200
     /\ transport.open = 1
     /\ "t" \in DOMAIN last.ret.body)
        => last.ret.body.device_info = usb_monitor.device_info

\* C11: GET /data with the connected flag false answers 400, reads nothing
\* and changes nothing; with the flag true it answers 200 after one read
\* (on the transport in real mode) with the data just read if there is
\* any, else the latest data retained from before the request if there is
\* any, else the "No data available" payload.
C11_GetDataPriority ==
    [][ last'.op = "GET /data" =>
          IF ~usb_monitor.is_connected
          THEN /\ last'.ret.status_code = 400
               /\ ~last'.transport_read
               /\ last'.data = None
               /\ usb_monitor' = usb_monitor
               /\ transport'.open = transport.open
          ELSE /\ last'.ret.status_code = 200
               /\ ~CloudMode(env) => last'.transport_read
               /\ last'.ret.body =
                      IF last'.data # None THEN last'.data
                      ELSE IF usb_monitor.latest_data # None THEN usb_monitor.latest_data
                      ELSE NoDataAvailable(usb_monitor) ]_vars

\* a GET /data that read nothing and answered with the retained data
C11_Witness ==
    /\ last.op = "GET /data"
    /\ last.ret.status_code = 200
    /\ last.data = None
    /\ last.transport_read
    /\ usb_monitor.latest_data # None
    /\ last.ret.body = usb_monitor.latest_data

\* C12: POST /connect answers every request that does not end connected (no
\* device path with auto-detect off, a failed auto-detection, a failed
\* connection to the given path) with a client error, status 400 to 499.
C12_ConnectFailuresAreClientErrors ==
    (last.op = "POST /connect" /\ last.ret.status_code # 200)
        => last.ret.status_code \in 400..499

\* the rank of a class tag in arduino > esp32 > raspberry_pi > sensor > gps
\* > generic, and past them any other tag
ClassRank(tag) ==
    CASE tag = "arduino" -> 1
      [] tag = "esp32" -> 2
      [] tag = "raspberry_pi" -> 3
      [] tag = "sensor" -> 4
      [] tag = "gps" -> 5
      [] tag = "generic" -> 6
      [] OTHER -> 7

\* the position of the first device of the best rank present
BestPosition(devices) ==
    CHOOSE i \in 1..Len(devices) :
        \A k \in 1..Len(devices) :
            /\ ClassRank(devices[k].device_type) >= ClassRank(devices[i].device_type)
            /\ ClassRank(devices[k].device_type) = ClassRank(devices[i].device_type)
                   => k >= i

\* what connect_to_device returns under the collaborators' behaviour oc
ConnectSucceeds(oc) ==
    \/ CloudMode(env)
    \/ oc.normalize = "ok" /\ \E i \in 1..3 : oc.strategy[i] = "open"

\* C13: auto_detect_and_connect on an empty device list calls no connect
\* and reports not connected; on a non-empty list it recommends the first
\* device of the highest class present in arduino > esp32 > raspberry_pi >
\* sensor > gps > generic, connects to it once, and reports as
\* auto_connected what that connect returned.
C13_AutoDetectPriority ==
    last.op = "auto_detect_and_connect" =>
        /\ (~CloudMode(env) /\ last.oc.comports = "ok")
               => Len(last.ret.detected_devices) = Len(ports)
        /\ IF last.ret.detected_devices = <<>>
           THEN /\ last.calls = 0
                /\ ~last.ret.auto_connected
                /\ usb_monitor = NewMonitor
                /\ transport = NoTransport
           ELSE /\ last.calls = 1
                /\ last.ret.recommended_device
                       = last.ret.detected_devices[BestPosition(last.ret.detected_devices)]
                /\ last.ret.connection_info.attempted_device
                       = last.ret.recommended_device.device
                /\ last.ret.auto_connected = ConnectSucceeds(last.oc)

\* the second of two devices was chosen, above a first of a lower class,
\* and the connection was made
C13_Witness ==
    /\ last.op = "auto_detect_and_connect"
    /\ Len(last.ret.detected_devices) = 2
    /\ last.ret.recommended_device = last.ret.detected_devices[2]
    /\ last.ret.detected_devices[1].device_type = "sensor"
    /\ last.ret.detected_devices[2].device_type = "esp32"
    /\ last.ret.auto_connected
    /\ usb_monitor.is_connected

\* C14: in one service process no two handlers run at the same time: while
\* the handler of GET /data runs, no handler of POST /connect or of
\* POST /disconnect runs, and every step that changes the monitor or the
\* transport is the return of the one handler that is running.
C14_HandlersDoNotOverlap ==
    [][ /\ Cardinality(active) <= 1
        /\ Cardinality(active') <= 1
        /\ ~("GET /data" \in active /\ active \cap { "POST /connect", "POST /disconnect" } # {})
        /\ (usb_monitor' # usb_monitor \/ transport' # transport)
               => (Cardinality(active) = 1 /\ active' = {}) ]_vars

\* a connect is running while a read and a disconnect that arrived are
\* waiting, on a monitor that is connected
C14_Witness ==
    /\ active = { "POST /connect" }
    /\ pending = { "GET /data", "POST /disconnect" }
    /\ usb_monitor.is_connected
    /\ transport.open = 1

\* a float in tenths
Tenths(v) == IF v.exp = 0 THEN v.num * 10 ELSE v.num

\* the value of a sensor entry is a float within [lo, hi], given in tenths
EntryWithin(sd, k, lo, hi) ==
    /\ k \in DOMAIN sd
    /\ sd[k].t = "float"
    /\ sd[k].exp \in { 0, 1 }
    /\ Tenths(sd[k]) >= lo
    /\ Tenths(sd[k]) <= hi

\* C15: with simulated devices, a GET /data that follows a POST /usb-inserted
\* that connected answers a json-typed response whose sensor_data has a
\* 'temperature' within [20, 35] and a 'voltage' within [3.2, 4.2].
C15_SimulatedReadings ==
    [][ ( /\ CloudMode(env)
          /\ last.op = "POST /usb-inserted"
          /\ last.ret.body.status = "connected"
          /\ last'.op = "GET /data" )
        => ( /\ last'.ret.status_code = 200
             /\ last'.ret.body.data_type = "json"
             /\ EntryWithin(last'.ret.body.sensor_data, "temperature", 200, 350)
             /\ EntryWithin(last'.ret.body.sensor_data, "voltage", 32, 42) ) ]_vars

\* the path POST /usb-inserted chose to connect to, as the monitor records it
InsertedPath(body) ==
    IF body.status = "connected" THEN PyStr(body.device.path) ELSE PyStr(body.device)

\* C16: POST /usb-inserted never connects to the device the monitor is
\* connected to: when it answers 'connected' or 'connection_failed' on a
\* connected monitor, the device it chose is another one than the connected
\* one, and when it answers 'no_devices' or 'all_connected' it made no
\* connect call.
C16_InsertedSkipsConnected ==
    last.op = "POST /usb-inserted"
        => /\ last.ret.body.status \in { "no_devices", "all_connected" }
                => last.calls = 0
           /\ ( /\ last.before.is_connected
                /\ last.ret.body.status \in { "connected", "connection_failed" } )
                => InsertedPath(last.ret.body) # last.before.device

\* C17: every call of connect_to_device appends exactly one record to
\* connection_history, and the record's success flag is the call's result;
\* so the total that /health reports is the number of connect calls made.
C17_OneRecordPerConnect ==
    [][ now' = now + 1
        => /\ last'.op = "connect_to_device"
           /\ Len(usb_monitor'.connection_history)
                  = Len(usb_monitor.connection_history) + 1
           /\ SubSeq(usb_monitor'.connection_history, 1,
                     Len(usb_monitor.connection_history))
                  = usb_monitor.connection_history
           /\ usb_monitor'.connection_history[Len(usb_monitor'.connection_history)].success
                  = last'.ret
           /\ health_check(usb_monitor', env).body.total_connections = now' ]_vars

\* C18: a read_data that returns a response makes it the latest data, in
\* real and in simulated-device mode, and a read_data that returns None
\* leaves the latest data as they were.
C18_ReadBecomesLatest ==
    [][ last'.op = "read_data"
        => IF last'.ret # None
           THEN usb_monitor'.latest_data = last'.ret
           ELSE usb_monitor'.latest_data = usb_monitor.latest_data ]_vars

\* C19: the sensor_data of every response that read_data returns has only
\* canonical sensor kinds as keys, and none of its values is None.
C19_SensorKeysCanonical ==
    (last.op = "read_data" /\ last.ret # None)
        => /\ DOMAIN last.ret.sensor_data \subseteq SensorKinds
           /\ \A k \in DOMAIN last.ret.sensor_data : last.ret.sensor_data[k] # None

\* C20: in auto mode a cleaned line that contains a comma and no line feed
\* and is not bracket-delimited valid JSON is classified csv, and the
\* response carries the cleaned line with data_type csv, formatted_data
\* None and an empty sensor_data: one line has no value row for the CSV
\* parser, and the key-value parser is not consulted.
C20_SingleLineCsv ==
    ( /\ response # Pending
      /\ data_format = "auto"
      /\ "," \in Range(CleanData(raw_data))
      /\ LF \notin Range(CleanData(raw_data))
      /\ ~(IsBracketed(CleanData(raw_data)) /\ json_loads(CleanData(raw_data)).ok) )
        => /\ _detect_data_format(CleanData(raw_data)) = "csv"
           /\ response # None
           /\ response.raw_data = CleanData(raw_data)
           /\ response.data_type = "csv"
           /\ response.formatted_data = None
           /\ response.sensor_data = EmptyMap

\* the line 'volt=3.7,amp=1.2', which the key-value parser would turn into
\* two fields, has been answered as csv without formatted data
C20_Witness ==
    /\ data_format = "auto"
    /\ raw_data = <<"v", "o", "l", "t", "=", "3", ".", "7", ",",
                    "a", "m", "p", "=", "1", ".", "2">>
    /\ response # Pending
    /\ response # None
    /\ response.data_type = "csv"
    /\ response.formatted_data = None
    /\ _parse_key_value_data(raw_data).t = "dict"
    /\ Cardinality(DOMAIN _parse_key_value_data(raw_data).d) = 2

\* C21: after auto_detect_and_connect connected on a real transport, the
\* baud rate in device_info and the baud rate of the held transport are the
\* recommended baud rate of the chosen device, which connection_info
\* reports.
C21_RecommendedBaudrateUsed ==
    ( /\ last.op = "auto_detect_and_connect"
      /\ ~CloudMode(env)
      /\ last.ret.auto_connected )
        => /\ last.ret.connection_info.baudrate
                  = last.ret.recommended_device.recommended_baudrate
           /\ usb_monitor.device_info.baudrate = last.ret.connection_info.baudrate
           /\ usb_monitor.serial_connection.baudrate = last.ret.connection_info.baudrate

\* C22: under the deployment launcher, the request that follows a POST
\* /connect that succeeded sees the connection, whichever worker serves it:
\* a GET /data is not answered 400 'No device connected', and a GET /health
\* reports device_connected.
C22_WorkersShareConnection ==
    [][ (last.op = "POST /connect" /\ last.ret.status_code = 200)
        => /\ last'.op = "GET /data" => last'.ret.status_code # 400
           /\ last'.op = "GET /health" => last'.ret.body.device_connected ]_vars

\* the legacy scalar fields of a response and the canonical kind of each
LegacyKinds ==
    [soc |-> "state_of_charge", battery_i |-> "current", battery_v |-> "voltage",
     temp |-> "temperature", rpm |-> "speed"]

\* C23: in every response that parse_universal_data builds, each legacy
\* field is the value of its canonical kind when sensor_data has that kind,
\* whatever the value (zero included), and is None when it has not.
C23_LegacyFieldsFollowKinds ==
    (response # Pending /\ response # None)
        => \A f \in DOMAIN LegacyKinds :
              IF LegacyKinds[f] \in DOMAIN response.sensor_data
              THEN response[f] = response.sensor_data[LegacyKinds[f]]
              ELSE response[f] = None

\* C24: in every state the monitor reaches, is_connected is true exactly
\* when device_info names a device; on a real transport is_connected
\* implies that the held transport is open; and /health reports a
\* connected_device other than None exactly when it reports
\* device_connected.
C24_ConnectedIffMetadata ==
    /\ usb_monitor.is_connected <=> "device" \in DOMAIN usb_monitor.device_info
    /\ (usb_monitor.is_connected /\ ~CloudMode(env))
           => /\ usb_monitor.serial_connection # None
              /\ usb_monitor.serial_connection.is_open
    /\ health_check(usb_monitor, env).body.device_connected
           <=> health_check(usb_monitor, env).body.connected_device # None

=============================================================================
